---- MODULE Spec2Model ----
(***************************************************************************)
(* A model of the InLocker backup engine (src-tauri/src): the backup       *)
(* orchestrator compress_folder, the change detector scan_changed_files,   *)
(* the restore orchestrator restore_backup with its tar extraction, the    *)
(* authenticated cipher of crypto.rs and the Operation Registry of         *)
(* commands.rs.                                                            *)
(*                                                                         *)
(* Bytes are naturals.  A file of the source tree is a record              *)
(* [name, size, modified_at, data]; name is the code of its relative path  *)
(* (NamePath gives the path's segments).  The tar, zstd, Argon2, AES-GCM   *)
(* and SHA-256 libraries are modelled by what the engine relies on: tar    *)
(* keeps (name, data) records in order, zstd frames a stream between a     *)
(* magic number and an epilogue, the key depends on passphrase and salt,   *)
(* the tag depends on key, nonce and every ciphertext byte, and the digest *)
(* is a function of all the bytes.                                         *)
(***************************************************************************)
EXTENDS Integers, Sequences, FiniteSets, TLC

(***************************************************************************)
(* Bounds of the model.                                                    *)
(***************************************************************************)
\* Largest number of files in the source tree of SpecBackup.
MaxFiles == 11
\* Largest number of files in the source tree of SpecRestore.
MaxRestoreFiles == 2
\* Number of file names considered by SpecScan.
MaxScanFiles == 2
\* Largest size and modification time of a file in SpecScan.
MaxStamp == 2
\* Number of backup runs of one configuration in SpecManifest.
MaxRuns == 2
\* Number of install and uninstall calls in SpecLaunchd.
MaxCalls == 3
MaxCmds == 2

(***************************************************************************)
(* Program constants.                                                      *)
(***************************************************************************)
\* The archive writer polls the cancel flag when index % 10 == 0.
CancelCheckEvery == 10
\* calculate_checksum returns the hex of a SHA-256 digest: 64 characters.
DigestHexLen == 64
\* restore_backup prints the first 16 characters of both checksums.
PreviewLen == 16
\* EncryptionMetadata: Argon2 version 0x13, 64 MiB, 3 iterations, 4 lanes.
ArgonVersion == 19
ArgonMemoryCost == 65536
ArgonIterations == 3
ArgonParallelism == 4
\* The length prefix of the encrypted frame is a little-endian u32.
PrefixLen == 4

(***************************************************************************)
(* Byte-level helpers.                                                     *)
(***************************************************************************)
Byte == 256
\* '{', '}', ',' and '0' of the serialized EncryptionMetadata.
BraceOpen == 123
BraceClose == 125
Comma == 44
Digit0 == 48
\* JSON whitespace: space, tab, line feed, carriage return.
Whitespace == {32, 9, 10, 13}
\* A base64 symbol of the salt or nonce string is one of 64 values.
Base64Symbols == 64
\* First byte of a zstd frame and the model's mark of a finished frame.
ZstdMagic == 40
ZstdEpilogue == 253
\* The end-of-archive mark written by tar::Builder::finish.
TarEnd == 0

RECURSIVE SumWeighted(_, _)
\* Sum of i * s[i] for i in 1..n.
SumWeighted(s, n) == IF n = 0 THEN 0 ELSE n * s[n] + SumWeighted(s, n - 1)

SubSeqFrom(s, i) == IF i > Len(s) THEN <<>> ELSE SubSeq(s, i, Len(s))

Prefix(s, n) == IF n <= 0 THEN <<>> ELSE SubSeq(s, 1, n)

RECURSIVE Digits(_)
\* Decimal digits of a natural, as serde_json writes a u32.
Digits(n) == IF n < 10 THEN <<Digit0 + n>> ELSE Append(Digits(n \div 10), Digit0 + (n % 10))

IsDigit(b) == b >= Digit0 /\ b <= Digit0 + 9

RECURSIVE ParseNat(_, _)
\* Value of the first n digits of ds.
ParseNat(ds, n) == IF n = 0 THEN 0 ELSE 10 * ParseNat(ds, n - 1) + (ds[n] - Digit0)

\* A JSON number that fits a u32: digits only, no leading zero.  (Numbers of
\* ten digits or more do not occur: every field has at most five digits and
\* the fields keep their lengths.)
IsJsonU32(ds) ==
    /\ Len(ds) >= 1
    /\ Len(ds) <= 9
    /\ \A i \in 1..Len(ds) : IsDigit(ds[i])
    /\ (Len(ds) > 1 => ds[1] # Digit0)

\* u32::to_le_bytes and u32::from_le_bytes.
U32ToLe(n) == << n % Byte, (n \div Byte) % Byte, (n \div (Byte * Byte)) % Byte,
                 (n \div (Byte * Byte * Byte)) % Byte >>

\* The value is only compared with lengths of files, all far below 2^24:
\* the top byte is counted up to 63 so that the sum stays a 32-bit integer.
U32FromLe(b) ==
    b[1] + Byte * b[2] + Byte * Byte * b[3]
    + Byte * Byte * Byte * (IF b[4] > 63 THEN 63 ELSE b[4])

(***************************************************************************)
(* Archive writer and compression codec (backup.rs).                       *)
(***************************************************************************)
\* One tar record: the header name, then the bytes read from the file
\* (tar.append_path_with_name(file_path, relative_path)).
TarRecord(src, name) == << name, src[name].data >>

RECURSIVE TarRecords(_, _, _)
\* The tar records of the first n files, in the order provided.
TarRecords(src, files, n) ==
    IF n = 0 THEN <<>> ELSE TarRecords(src, files, n - 1) \o TarRecord(src, files[n])

\* What the zstd encoder has put in the sink after `n` files were appended
\* and before the stream is finished.
StreamAfter(src, files, n) == <<ZstdMagic>> \o TarRecords(src, files, n)

\* The finished stream: tar.finish() then encoder.finish().
StreamFinished(src, files) ==
    StreamAfter(src, files, Len(files)) \o <<TarEnd, ZstdEpilogue>>

\* zstd::decode_all: a frame is decodable only if it is whole.
ZstdOk(data) ==
    /\ Len(data) >= 2
    /\ data[1] = ZstdMagic
    /\ data[Len(data)] = ZstdEpilogue

decompress_with_zstd(data) == SubSeq(data, 2, Len(data) - 1)

RECURSIVE TarEntries(_)
\* tar::Archive::entries: records are read until the end-of-archive mark or
\* the end of the data; a header without its data is a read error, reported
\* as the entry [bad |-> TRUE] after the entries before it.
TarEntries(tar) ==
    IF tar = <<>> \/ tar[1] = TarEnd THEN <<>>
    ELSE IF Len(tar) = 1 THEN << [bad |-> TRUE, name |-> tar[1], data |-> 0] >>
    ELSE << [bad |-> FALSE, name |-> tar[1], data |-> tar[2]] >>
         \o TarEntries(SubSeqFrom(tar, 3))

(***************************************************************************)
(* Integrity hasher (backup.rs, calculate_checksum).                       *)
(***************************************************************************)
\* The hex digest of a file: DigestHexLen characters that depend on every
\* byte of the file.
calculate_checksum(bytes) == [len |-> DigestHexLen, of |-> bytes]

(***************************************************************************)
(* Authenticated cipher (crypto.rs).                                       *)
(***************************************************************************)
\* A key that depends on the salt alone.
derive_key_from_salt(password, salt) == salt

\* Argon2id over passphrase and salt; the cost parameters are the literals
\* of derive_key, never those of the metadata.
derive_key(password, salt) == password * Base64Symbols + salt

\* The GCM tag, appended to the ciphertext: TagLen elements that depend on
\* key, nonce and every ciphertext byte.
TagLen == 2

GcmTag(key, nonce, ct) ==
    << key * Base64Symbols + nonce, SumWeighted(ct, Len(ct)) >>

\* AES-256-GCM keystream applied to one byte.
GcmByte(b, key, nonce, i, sign) == (b + sign * (key + nonce + i)) % Byte

\* encrypt: seal_in_place_append_tag, with the metadata it returns.
encrypt(plaintext, password, salt, nonce) ==
    LET key == derive_key(password, salt)
        ct == [i \in 1..Len(plaintext) |-> GcmByte(plaintext[i], key, nonce, i, 1)]
    IN [data |-> ct \o GcmTag(key, nonce, ct),
        metadata |-> [salt |-> salt, nonce |-> nonce, version |-> ArgonVersion,
                      memory_cost |-> ArgonMemoryCost, iterations |-> ArgonIterations,
                      parallelism |-> ArgonParallelism]]

\* decrypt: base64-decode salt and nonce, derive the key, open_in_place.
decrypt(ciphertext, password, metadata) ==
    IF metadata.salt \notin 0..(Base64Symbols - 1) THEN [ok |-> FALSE, err |-> "InvalidSalt", data |-> <<>>]
    ELSE IF metadata.nonce \notin 0..(Base64Symbols - 1) THEN [ok |-> FALSE, err |-> "InvalidNonce", data |-> <<>>]
    ELSE LET key == derive_key(password, metadata.salt)
             n == Len(ciphertext) - TagLen
             ct == Prefix(ciphertext, n)
         IN IF n < 0 \/ SubSeqFrom(ciphertext, n + 1) # GcmTag(key, metadata.nonce, ct)
            THEN [ok |-> FALSE, err |-> "AuthError", data |-> <<>>]
            ELSE [ok |-> TRUE, err |-> "",
                  data |-> [i \in 1..n |-> GcmByte(ct[i], key, metadata.nonce, i, -1)]]

(***************************************************************************)
(* The encrypted frame: [4-byte length][metadata JSON][encrypted data].    *)
(***************************************************************************)
\* serde_json::to_vec(&metadata).
MetadataJson(md) ==
    <<BraceOpen, md.salt, Comma, md.nonce, Comma>> \o Digits(md.version) \o <<Comma>>
    \o Digits(md.memory_cost) \o <<Comma>> \o Digits(md.iterations) \o <<Comma>>
    \o Digits(md.parallelism) \o <<BraceClose>>

\* final_data of compress_folder.
FrameOf(enc) ==
    LET js == MetadataJson(enc.metadata) IN U32ToLe(Len(js)) \o js \o enc.data

RECURSIVE SplitAtComma(_, _, _)
\* The comma-separated fields of s[i..], `cur` being the field under way.
SplitAtComma(s, i, cur) ==
    IF i > Len(s) THEN <<cur>>
    ELSE IF s[i] = Comma THEN <<cur>> \o SplitAtComma(s, i + 1, <<>>)
    ELSE SplitAtComma(s, i + 1, Append(cur, s[i]))

Structural == {BraceOpen, BraceClose, Comma}

\* Index of the first closing brace of js, or 0.
FirstClose(js) ==
    IF \E i \in 1..Len(js) : js[i] = BraceClose
    THEN CHOOSE i \in 1..Len(js) : js[i] = BraceClose /\ \A j \in 1..(i - 1) : js[j] # BraceClose
    ELSE 0

RECURSIVE TrimLeft(_)
TrimLeft(s) == IF s # <<>> /\ s[1] \in Whitespace THEN TrimLeft(Tail(s)) ELSE s

RECURSIVE TrimRight(_)
TrimRight(s) ==
    IF s # <<>> /\ s[Len(s)] \in Whitespace THEN TrimRight(Prefix(s, Len(s) - 1)) ELSE s

\* serde_json::from_slice::<EncryptionMetadata>: one object with the six
\* fields, whitespace allowed around every number, followed by nothing but
\* whitespace.
ParseMetadata(js) ==
    LET close == FirstClose(js)
        raw == SplitAtComma(SubSeq(js, 2, close - 1), 1, <<>>)
        fields == [k \in DOMAIN raw |-> IF k >= 3 THEN TrimLeft(TrimRight(raw[k])) ELSE raw[k]]
        bad == [ok |-> FALSE, md |-> [salt |-> 0, nonce |-> 0, version |-> 0, memory_cost |-> 0,
                                      iterations |-> 0, parallelism |-> 0]]
    IN IF Len(js) < 2 \/ js[1] # BraceOpen \/ close = 0 THEN bad
       ELSE IF \E i \in (close + 1)..Len(js) : js[i] \notin Whitespace THEN bad
       ELSE IF Len(fields) # 6 THEN bad
       ELSE IF Len(fields[1]) # 1 \/ Len(fields[2]) # 1 THEN bad
       ELSE IF fields[1][1] \in Structural \/ fields[2][1] \in Structural THEN bad
       ELSE IF \E k \in 3..6 : ~IsJsonU32(fields[k]) THEN bad
       ELSE [ok |-> TRUE,
             md |-> [salt |-> fields[1][1], nonce |-> fields[2][1],
                     version |-> ParseNat(fields[3], Len(fields[3])),
                     memory_cost |-> ParseNat(fields[4], Len(fields[4])),
                     iterations |-> ParseNat(fields[5], Len(fields[5])),
                     parallelism |-> ParseNat(fields[6], Len(fields[6]))]]

(***************************************************************************)
(* Paths.  A path is a sequence of segments; a relative path is the path   *)
(* of a file name.                                                         *)
(***************************************************************************)
\* The `..` segment, the root of an absolute entry name, a subdirectory.
DotDot == -1
RootSeg == -2
SubDir == 70
\* A name outside the source tree that a planted entry points at.
Escape == 77

\* Entry names a walk of a source tree never yields.
UpUp == 91
Absolute == 92
SubUpUp == 93
SubUp == 94
HostileNames == {UpUp, Absolute, SubUpUp, SubUp}

\* The relative path of a file name: the files with an even name lie in a
\* subdirectory.
NamePath(name) ==
    CASE name = UpUp -> <<DotDot, DotDot, Escape>>
      [] name = Absolute -> <<RootSeg, Escape>>
      [] name = SubUpUp -> <<SubDir, DotDot, DotDot, Escape>>
      [] name = SubUp -> <<SubDir, DotDot, Escape>>
      [] OTHER -> IF name % 2 = 0 THEN <<SubDir, name>> ELSE <<name>>

\* The restore destination, an absolute path.
Destination == <<50, 51>>

\* Path::join: an absolute argument replaces the base.
Join(base, rel) == IF rel # <<>> /\ rel[1] = RootSeg THEN Tail(rel) ELSE base \o rel

RECURSIVE Resolve(_, _)
\* The file the operating system reaches through the first n segments of p.
Resolve(p, n) ==
    IF n = 0 THEN <<>>
    ELSE LET up == Resolve(p, n - 1)
         IN IF p[n] = DotDot THEN Prefix(up, Len(up) - 1) ELSE Append(up, p[n])

IsUnder(p, base) == Len(p) > Len(base) /\ Prefix(p, Len(base)) = base

(***************************************************************************)
(* Path walker and change detector (backup.rs).                            *)
(***************************************************************************)
RECURSIVE SortedSeq(_)
\* The elements of a finite set of integers in ascending order.
SortedSeq(S) ==
    IF S = {} THEN <<>>
    ELSE LET m == CHOOSE x \in S : \A y \in S : x <= y
         IN <<m>> \o SortedSeq(S \ {m})

\* scan_all_files: the regular files under the source, in directory order.
scan_all_files(src) == SortedSeq(DOMAIN src)

\* The should_backup decision of scan_changed_files for one file.
should_backup(src, manifest, name) ==
    IF manifest.present
    THEN IF name \in DOMAIN manifest.files
         THEN \/ src[name].modified_at # manifest.files[name].modified_at
              \/ src[name].size # manifest.files[name].size
         ELSE TRUE
    ELSE TRUE

\* scan_changed_files: a second walk, filtered by should_backup.
scan_changed_files(src, manifest) ==
    LET Keep(name) == should_backup(src, manifest, name)
    IN SelectSeq(scan_all_files(src), Keep)

\* previous_manifest = None.
NoManifest == [present |-> FALSE, files |-> <<>>]

(***************************************************************************)
(* State.                                                                  *)
(***************************************************************************)
VARIABLES
    \* Inputs of one compress_folder call.
    source,            \* the source tree: name -> [size, modified_at, data]
    mode,              \* "Copy" | "Compressed" | "Encrypted"
    backup_type,       \* "Full" | "Incremental"
    previous_manifest, \* NoManifest or [present |-> TRUE, files |-> ...]
    password,          \* 0 (None) or a passphrase
    \* The call's position and locals.
    pc,
    cancel_flag,       \* the shared AtomicBool
    all_files,
    files_to_backup,
    index,             \* files appended (archive writer) or copied so far
    backup_path,       \* [actual, ext] of the planned artifact name
    fs,                \* destination: [artifact |-> node, temp |-> node]
    result,            \* "none" while running, then the Ok/Err kind
    job,               \* the returned BackupJob
    cancelAt,          \* where the call was when the flag was set
    \* What happened to the artifact after the backup, and the restore call.
    tamper,            \* [kind, pos]
    restore,           \* the restore_backup call: inputs and Outcome
    \* The shell (commands.rs, lib.rs, scheduler.rs).
    cancel_flags,      \* AppState.cancel_flags: config_id -> task owning the flag
    tasks,             \* task -> [pc, config_id, flag]
    \* The manifest of one configuration and the runs that read and write it.
    manifest_file,     \* manifests/<config_id>.json: [state, scan, files]
    dest_dir,          \* the destination folder: [readable, artifacts, touched], oldest first
    runs,              \* run -> [pc, kind, handed, verdict, ..., manifest, stored, seen, built]
    scans,             \* number of walks made for a manifest so far
    \* launchd (launchd.rs).
    plists,            \* config_id -> NoPlist or the descriptor file's content
    loaded,            \* config_id -> NoPlist or the descriptor launchd loaded
    last,              \* the last install or uninstall call: inputs, locals, result
    calls,             \* number of calls made
    \* The configurations (commands.rs).
    configs,           \* AppState.configs: id -> BackupConfig
    config_file,       \* configs.json: [exists, entries], entries as serialized
    locks,             \* the mutexes of AppState: name -> command holding it, or 0
    cmds               \* command call -> [op, pc, config_id, arg, loaded]

bvars == << source, mode, backup_type, previous_manifest, password, pc, cancel_flag,
            all_files, files_to_backup, index, backup_path, fs, result, job, cancelAt >>

rvars == << tamper, restore >>

gvars == << cancel_flags, tasks >>

mvars == << manifest_file, dest_dir, runs, scans >>

lvars == << plists, loaded, last, calls >>

cvars == << configs, config_file, locks, cmds >>

vars == << bvars, rvars, gvars, mvars, lvars, cvars >>

NoNode == [kind |-> "none", bytes |-> <<>>, entries |-> <<>>]
FileNode(b) == [kind |-> "file", bytes |-> b, entries |-> <<>>]
DirNode(es) == [kind |-> "dir", bytes |-> <<>>, entries |-> es]

NoChecksum == [len |-> 0, of |-> <<>>]
NoJob == [files_count |-> 0, checksum |-> NoChecksum, backup_path |-> [actual |-> "", ext |-> ""]]

\* Salts and nonces drawn by generate_salt and generate_nonce.
Salts == {5, 9}
Nonces == {7}

\* The source trees of n files named 1..n.
TreeOf(n) == [i \in 1..n |-> [size |-> 1, modified_at |-> 1, data |-> i % 3]]

\* A manifest whose entries describe the first m files of src as they are.
ManifestOf(src, m) ==
    [present |-> TRUE,
     files |-> [i \in 1..m |-> [size |-> src[i].size, modified_at |-> src[i].modified_at,
                                checksum |-> "sha256"]]]

CallStart ==
    /\ pc = "start"
    /\ cancel_flag = FALSE
    /\ all_files = <<>>
    /\ files_to_backup = <<>>
    /\ index = 0
    /\ backup_path = [actual |-> "", ext |-> ""]
    /\ fs = [artifact |-> NoNode, temp |-> NoNode]
    /\ result = "none"
    /\ job = NoJob
    /\ cancelAt = [pc |-> "never", index |-> 0]

(***************************************************************************)
(* compress_folder (backup.rs), one action per step between two polls or   *)
(* two file-system operations.                                             *)
(***************************************************************************)
Return(res, j) ==
    /\ pc' = "done"
    /\ result' = res
    /\ job' = j

\* The shell sets the flag (cancel_backup) before or while the call runs.
SetCancel ==
    /\ pc # "done"
    /\ ~cancel_flag
    /\ cancel_flag' = TRUE
    /\ cancelAt' = [pc |-> pc, index |-> index]
    /\ UNCHANGED << source, mode, backup_type, previous_manifest, password, pc, all_files,
                    files_to_backup, index, backup_path, fs, result, job,
                    rvars, gvars, mvars, lvars, cvars >>

\* check_cancelled() at entry.
Start ==
    /\ pc = "start"
    /\ IF cancel_flag THEN Return("Cancelled", NoJob)
       ELSE pc' = "scan" /\ UNCHANGED << result, job >>
    /\ UNCHANGED << source, mode, backup_type, previous_manifest, password, cancel_flag,
                    all_files, files_to_backup, index, backup_path, fs, cancelAt,
                    rvars, gvars, mvars, lvars, cvars >>

\* scan_all_files(source_path)?
Scan ==
    /\ pc = "scan"
    /\ \/ /\ all_files' = scan_all_files(source)
          /\ pc' = "select"
          /\ UNCHANGED << result, job >>
       \/ /\ Return("IoError", NoJob)
          /\ UNCHANGED all_files
    /\ UNCHANGED << source, mode, backup_type, previous_manifest, password, cancel_flag,
                    files_to_backup, index, backup_path, fs, cancelAt,
                    rvars, gvars, mvars, lvars, cvars >>

\* The match on backup_type that determines files_to_backup.
Select ==
    /\ pc = "select"
    /\ \/ /\ files_to_backup' =
                IF backup_type = "Full" THEN all_files
                ELSE IF ~previous_manifest.present THEN all_files
                ELSE scan_changed_files(source, previous_manifest)
          /\ pc' = "scanned"
          /\ UNCHANGED << result, job >>
       \/ /\ backup_type = "Incremental" /\ previous_manifest.present
          /\ Return("IoError", NoJob)
          /\ UNCHANGED files_to_backup
    /\ UNCHANGED << source, mode, backup_type, previous_manifest, password, cancel_flag,
                    all_files, index, backup_path, fs, cancelAt,
                    rvars, gvars, mvars, lvars, cvars >>

\* actual_backup_type and backup_filename.
PlannedPath ==
    [actual |-> IF Len(files_to_backup) = Len(all_files) THEN "full" ELSE "incr",
     ext |-> CASE mode = "Copy" -> "copy"
               [] mode = "Compressed" -> "zst"
               [] mode = "Encrypted" -> "enc"]

\* check_cancelled() after the scan, then the artifact name.
Scanned ==
    /\ pc = "scanned"
    /\ IF cancel_flag
       THEN Return("Cancelled", NoJob) /\ UNCHANGED backup_path
       ELSE /\ backup_path' = PlannedPath
            /\ pc' = IF mode = "Copy" THEN "copy_mkdir" ELSE "mk_dest"
            /\ UNCHANGED << result, job >>
    /\ UNCHANGED << source, mode, backup_type, previous_manifest, password, cancel_flag,
                    all_files, files_to_backup, index, fs, cancelAt,
                    rvars, gvars, mvars, lvars, cvars >>

\* What every step of the call leaves alone.
CallFrame == UNCHANGED << source, mode, backup_type, previous_manifest, password,
                          cancel_flag, all_files, files_to_backup, backup_path, cancelAt,
                          rvars, gvars, mvars, lvars, cvars >>

JobOf(sum) ==
    [files_count |-> Len(files_to_backup), checksum |-> sum, backup_path |-> backup_path]

\* Copy mode: fs::create_dir_all(&backup_path)?  A folder that exists is
\* left as it is.
CopyMkdir ==
    /\ pc = "copy_mkdir"
    /\ \/ /\ fs' = IF fs.artifact.kind = "dir" THEN fs
                   ELSE [fs EXCEPT !.artifact = DirNode(<<>>)]
          /\ pc' = "copy_loop"
          /\ UNCHANGED << result, job >>
       \/ /\ Return("IoError", NoJob)
          /\ UNCHANGED fs
    /\ UNCHANGED index
    /\ CallFrame

\* Copy mode: one iteration of the copy loop (check_cancelled, fs::copy);
\* on Err the partial folder is removed (fs::remove_dir_all).
CopyFile ==
    /\ pc = "copy_loop"
    /\ index < Len(files_to_backup)
    /\ IF cancel_flag
       THEN /\ fs' = [fs EXCEPT !.artifact = NoNode]
            /\ Return("Cancelled", NoJob)
            /\ UNCHANGED index
       ELSE \/ /\ fs' = [fs EXCEPT !.artifact.entries =
                            (files_to_backup[index + 1] :> source[files_to_backup[index + 1]].data) @@ @]
               /\ index' = index + 1
               /\ UNCHANGED << pc, result, job >>
            \/ /\ fs' = [fs EXCEPT !.artifact = NoNode]
               /\ Return("IoError", NoJob)
               /\ UNCHANGED index
    /\ CallFrame

\* Copy mode: the loop is over, the job is returned without a checksum.
CopyDone ==
    /\ pc = "copy_loop"
    /\ index = Len(files_to_backup)
    /\ Return("Ok", JobOf(NoChecksum))
    /\ UNCHANGED << fs, index >>
    /\ CallFrame

\* Archive modes: fs::create_dir_all(dest_path)?
MkDest ==
    /\ pc = "mk_dest"
    /\ \/ pc' = "create" /\ UNCHANGED << result, job >>
       \/ Return("IoError", NoJob)
    /\ UNCHANGED << fs, index >>
    /\ CallFrame

\* The file the archive writer streams into.
Sink == IF mode = "Compressed" THEN "artifact" ELSE "temp"

\* fs::remove_file of the sink on the writer's error paths.
RemoveSink == [fs EXCEPT ![Sink] = NoNode]

\* Compressed: fs::File::create(&backup_path).  Encrypted: the passphrase
\* is required, then fs::File::create(&temp_compressed).
Create ==
    /\ pc = "create"
    /\ IF mode = "Encrypted" /\ password = 0
       THEN Return("NoPassword", NoJob) /\ UNCHANGED fs
       ELSE \/ /\ fs' = [fs EXCEPT ![Sink] = FileNode(<<>>)]
               /\ pc' = "writer"
               /\ UNCHANGED << result, job >>
            \/ /\ fs' = RemoveSink
               /\ Return("IoError", NoJob)
    /\ UNCHANGED index
    /\ CallFrame

\* A writer that never polls the flag.
WriterNeverPolls(i) == i < 0

\* create_tar_with_streaming_compression polls the flag before the files
\* with index % 10 == 0.
WriterPolls(i) == i % CancelCheckEvery = 0

\* One iteration of the writer's loop; the caller removes the sink on Err.
WriterStep ==
    /\ pc = "writer"
    /\ index < Len(files_to_backup)
    /\ IF WriterPolls(index) /\ cancel_flag
       THEN /\ fs' = RemoveSink
            /\ Return("Cancelled", NoJob)
            /\ UNCHANGED index
       ELSE \/ /\ fs' = [fs EXCEPT ![Sink] =
                            FileNode(StreamAfter(source, files_to_backup, index + 1))]
               /\ index' = index + 1
               /\ UNCHANGED << pc, result, job >>
            \/ /\ fs' = RemoveSink
               /\ Return("IoError", NoJob)
               /\ UNCHANGED index
    /\ CallFrame

\* tar.finish(), encoder.finish(), sync_all(), metadata().
WriterFinish ==
    /\ pc = "writer"
    /\ index = Len(files_to_backup)
    /\ \/ /\ fs' = [fs EXCEPT ![Sink] = FileNode(StreamFinished(source, files_to_backup))]
          /\ pc' = IF mode = "Compressed" THEN "checksum" ELSE "between"
          /\ UNCHANGED << result, job >>
       \/ /\ fs' = RemoveSink
          /\ Return("IoError", NoJob)
    /\ UNCHANGED index
    /\ CallFrame

\* Encrypted: check_cancelled()? between compression and encryption.
Between ==
    /\ pc = "between"
    /\ IF cancel_flag THEN Return("Cancelled", NoJob)
       ELSE pc' = "encrypt" /\ UNCHANGED << result, job >>
    /\ UNCHANGED << fs, index >>
    /\ CallFrame

\* Encrypted: the encryption closure (read the temp file, encrypt, frame,
\* write the artifact), then the temp file is removed, and on Err the
\* artifact too.
Encrypt ==
    /\ pc = "encrypt"
    /\ \/ /\ \E salt \in Salts, nonce \in Nonces :
                fs' = [artifact |-> FileNode(FrameOf(encrypt(fs.temp.bytes, password, salt, nonce))),
                       temp |-> NoNode]
          /\ pc' = "checksum"
          /\ UNCHANGED << result, job >>
       \/ /\ fs' = [artifact |-> NoNode, temp |-> NoNode]
          /\ \E e \in {"IoError", "EncryptError"} : Return(e, NoJob)
    /\ UNCHANGED index
    /\ CallFrame

\* The checksum taken over the compressed stream instead of the final file.
ChecksumOfStream == StreamFinished(source, files_to_backup)

\* The bytes calculate_checksum(&backup_path) reads.
ChecksumInput == fs.artifact.bytes

\* The checksum of the artifact, then the BackupJob; on Err the artifact is
\* removed.
Checksum ==
    /\ pc = "checksum"
    /\ \/ /\ Return("Ok", JobOf(calculate_checksum(ChecksumInput)))
          /\ UNCHANGED fs
       \/ /\ fs' = [fs EXCEPT !.artifact = NoNode]
          /\ Return("IoError", NoJob)
    /\ UNCHANGED index
    /\ CallFrame

CompressFolder ==
    \/ Start \/ Scan \/ Select \/ Scanned
    \/ CopyMkdir \/ CopyFile \/ CopyDone
    \/ MkDest \/ Create \/ WriterStep \/ WriterFinish
    \/ Between \/ Encrypt \/ Checksum

(***************************************************************************)
(* restore_backup and extract_tar_archive (backup.rs).  A restore is the   *)
(* record [result, created, log, count]: the Ok/Err kind, whether the      *)
(* destination directory was created, the files written in order (each     *)
(* [path, data], path being the file the operating system reached), and    *)
(* the number of entries unpacked.                                         *)
(***************************************************************************)
Outcome(res, created, log, count) ==
    [result |-> res, created |-> created, log |-> log, count |-> count]

\* An Err returned before extract_tar_archive is called.
EarlyErr(kind) == Outcome(kind, FALSE, <<>>, 0)

RECURSIVE ExtractFrom(_, _, _, _, _)
\* The entry loop of extract_tar_archive from entry k on.
ExtractFrom(entries, k, destination, cancelled, log) ==
    IF k > Len(entries) THEN Outcome("Ok", TRUE, log, k - 1)
    ELSE IF cancelled THEN Outcome("Cancelled", TRUE, log, k - 1)
    ELSE IF entries[k].bad THEN Outcome("TarError", TRUE, log, k - 1)
    ELSE LET path == Join(destination, NamePath(entries[k].name))
         IN ExtractFrom(entries, k + 1, destination, cancelled,
                        Append(log, [path |-> Resolve(path, Len(path)),
                                     data |-> entries[k].data]))

\* extract_tar_archive: create_dir_all(destination), then for every entry
\* destination.join(entry.path()) and entry.unpack(&path).
extract_tar_archive(tar_data, destination, cancelled) ==
    ExtractFrom(TarEntries(tar_data), 1, destination, cancelled, <<>>)

\* constant_time_eq over the two hex strings.
constant_time_eq(a, b) == a.len = b.len /\ a.of = b.of

\* The integrity block of restore_backup: "skip" without an expected
\* checksum, "match", or how the mismatch branch ends.  The branch slices
\* the first PreviewLen characters of both strings for its message.
VerifyIntegrity(bytes, expected) ==
    IF expected.len = 0 THEN "skip"
    ELSE IF constant_time_eq(calculate_checksum(bytes), expected) THEN "match"
    ELSE IF expected.len < PreviewLen THEN "Panic"
    ELSE "IntegrityError"

\* is_encrypted: the extension is "enc".
IsEncrypted(ext) == ext = "enc"

\* A test of the extension instead of the file name.
IsCompressedByExtension(ext) == ext = "zst"

\* is_compressed: the file name contains ".zst" (artifacts are named
\* *.tar.zst and *.tar.zst.enc).
IsCompressed(ext) == ext \in {"zst", "enc"}

\* The decryption block of restore_backup: passphrase, length prefix,
\* metadata JSON, decrypt.
OpenFrame(file_data, pwd) ==
    LET metadata_len == U32FromLe(Prefix(file_data, PrefixLen))
        parsed == ParseMetadata(SubSeq(file_data, PrefixLen + 1, PrefixLen + metadata_len))
        opened == decrypt(SubSeqFrom(file_data, PrefixLen + metadata_len + 1), pwd, parsed.md)
    IN IF pwd = 0 THEN [ok |-> FALSE, err |-> "NoPassword", data |-> <<>>]
       ELSE IF Len(file_data) < PrefixLen THEN [ok |-> FALSE, err |-> "TooShort", data |-> <<>>]
       ELSE IF Len(file_data) < PrefixLen + metadata_len
            THEN [ok |-> FALSE, err |-> "Truncated", data |-> <<>>]
       ELSE IF ~parsed.ok THEN [ok |-> FALSE, err |-> "MetadataError", data |-> <<>>]
       ELSE IF ~opened.ok THEN [ok |-> FALSE, err |-> "DecryptError", data |-> <<>>]
       ELSE [ok |-> TRUE, err |-> "", data |-> opened.data]

\* restore_backup(backup_file_path, restore_destination, expected_checksum,
\* password, app, cancel_flag): `node` and `ext` are the file at
\* backup_file_path and its name, `cancelled` the value of the flag.
restore_backup(node, ext, destination, expected, pwd, cancelled) ==
    LET verdict == VerifyIntegrity(node.bytes, expected)
        frame == OpenFrame(node.bytes, pwd)
        compressed_data == IF IsEncrypted(ext) THEN frame.data ELSE node.bytes
        tar_data == IF IsCompressed(ext) THEN decompress_with_zstd(compressed_data)
                    ELSE compressed_data
    IN IF cancelled THEN EarlyErr("Cancelled")
       ELSE IF node.kind # "file" THEN EarlyErr("IoError")
       ELSE IF verdict \in {"Panic", "IntegrityError"} THEN EarlyErr(verdict)
       ELSE IF IsEncrypted(ext) /\ ~frame.ok THEN EarlyErr(frame.err)
       ELSE IF IsCompressed(ext) /\ ~ZstdOk(compressed_data) THEN EarlyErr("DecompressError")
       ELSE extract_tar_archive(tar_data, destination, cancelled)

(***************************************************************************)
(* What can happen to an artifact between backup and restore, and the      *)
(* restore call.                                                           *)
(***************************************************************************)
NoTamper == [kind |-> "none", pos |-> 0]

NoRestore == [called |-> FALSE, expected |-> NoChecksum, password |-> 0,
              cancelled |-> FALSE, out |-> EarlyErr("none")]

\* Values written over a byte: zero, a space, the digits '0' and '4', and a
\* value above every digit.
TamperVals == {0, 32, 48, 52, 200}

\* The backup returned Ok and restore_backup was not called yet.
Stored ==
    /\ pc = "done"
    /\ result = "Ok"
    /\ ~restore.called

Untouched == tamper.kind = "none" /\ fs.artifact.kind = "file"

RestoreFrame == UNCHANGED << source, mode, backup_type, previous_manifest, password, pc,
                             cancel_flag, all_files, files_to_backup, index, backup_path,
                             result, job, cancelAt, gvars, mvars, lvars, cvars >>

\* One byte of the stored artifact is changed.
FlipByte ==
    /\ Stored /\ Untouched
    /\ \E i \in 1..Len(fs.artifact.bytes), v \in TamperVals :
          /\ v # fs.artifact.bytes[i]
          /\ fs' = [fs EXCEPT !.artifact.bytes[i] = v]
          /\ tamper' = [kind |-> "byte", pos |-> i]
    /\ UNCHANGED restore
    /\ RestoreFrame

\* The stored artifact loses its last byte.
Truncate ==
    /\ Stored /\ Untouched
    /\ fs.artifact.bytes # <<>>
    /\ fs' = [fs EXCEPT !.artifact.bytes = Prefix(@, Len(@) - 1)]
    /\ tamper' = [kind |-> "truncate", pos |-> Len(fs.artifact.bytes)]
    /\ UNCHANGED restore
    /\ RestoreFrame

\* A byte is appended to the stored artifact.
AppendByte ==
    /\ Stored /\ Untouched
    /\ fs' = [fs EXCEPT !.artifact.bytes = Append(@, 0)]
    /\ tamper' = [kind |-> "append", pos |-> Len(fs.artifact.bytes) + 1]
    /\ UNCHANGED restore
    /\ RestoreFrame

\* A well-formed archive holding the entry named h, after one harmless entry
\* when `lead` is set, packed like an artifact of the backup's mode.
HostileArtifact(h, lead) ==
    LET stream == <<ZstdMagic>> \o (IF lead THEN <<1, 1>> ELSE <<>>) \o <<h, 2>>
                  \o <<TarEnd, ZstdEpilogue>>
    IN IF mode = "Encrypted"
       THEN FrameOf(encrypt(stream, password, CHOOSE x \in Salts : TRUE,
                            CHOOSE x \in Nonces : TRUE))
       ELSE stream

\* The stored artifact is replaced by an archive with a hostile entry name.
PlantHostile ==
    /\ Stored /\ Untouched
    /\ \E h \in HostileNames, lead \in BOOLEAN :
          /\ fs' = [fs EXCEPT !.artifact.bytes = HostileArtifact(h, lead)]
          /\ tamper' = [kind |-> "hostile", pos |-> h]
    /\ UNCHANGED restore
    /\ RestoreFrame

\* Passphrases given to restore: none, the one of the backup, another one.
Passwords == {0, 1, 2}

\* Expected checksums given to restore: none, the one the backup returned,
\* the checksum of other bytes, a string shorter than a checksum.
ExpectedChoices ==
    {NoChecksum, job.checksum, calculate_checksum(<<>>), [len |-> 3, of |-> <<>>]}

\* restore_backup is called on the artifact into Destination.
Restore ==
    /\ Stored
    /\ \E e \in ExpectedChoices, pw \in Passwords, c \in BOOLEAN :
          restore' = [called |-> TRUE, expected |-> e, password |-> pw, cancelled |-> c,
                      out |-> restore_backup(fs.artifact, backup_path.ext, Destination,
                                             e, pw, c)]
    /\ UNCHANGED << fs, tamper >>
    /\ RestoreFrame

(***************************************************************************)
(* The shell: run_backup_now and cancel_backup (commands.rs), the CLI      *)
(* `--backup` run (lib.rs) and the in-app scheduled job (scheduler.rs).    *)
(* Tasks 1 and 2 are invocations of the run_backup_now command, task 3 is  *)
(* a scheduled run.                                                        *)
(***************************************************************************)
ConfigIds == {1, 2}
\* A config_id that no saved configuration has.
UnknownId == 9
Tasks == {1, 2, 3}
CommandTasks == {1, 2}
ScheduledTasks == {3}

IdleTask == [pc |-> "idle", config_id |-> 0, flag |-> FALSE]

ShellFrame == UNCHANGED << bvars, rvars, mvars, lvars, cvars >>

\* run_backup_now: a new flag is inserted under config_id.
RunBackupNowInsert ==
    /\ \E t \in CommandTasks, c \in ConfigIds \cup {UnknownId} :
          /\ tasks[t].pc = "idle"
          /\ cancel_flags' = [cancel_flags EXCEPT ![c] = t]
          /\ tasks' = [tasks EXCEPT ![t] = [pc |-> "inserted", config_id |-> c, flag |-> FALSE]]
    /\ ShellFrame

\* run_backup_now: the configuration is looked up; "Config not found"
\* returns at once.
RunBackupNowLookup ==
    /\ \E t \in CommandTasks :
          /\ tasks[t].pc = "inserted"
          /\ tasks' = [tasks EXCEPT ![t] =
                          IF tasks[t].config_id \in ConfigIds
                          THEN [@ EXCEPT !.pc = "found"]
                          ELSE IdleTask]
    /\ UNCHANGED cancel_flags
    /\ ShellFrame

\* run_backup_now: get_manifest_path(&app, &config_id)? returns the path, or
\* its Err ends the command.
RunBackupNowManifestPath ==
    /\ \E t \in CommandTasks :
          /\ tasks[t].pc = "found"
          /\ \/ tasks' = [tasks EXCEPT ![t].pc = "running"]
             \/ tasks' = [tasks EXCEPT ![t] = IdleTask]
    /\ UNCHANGED cancel_flags
    /\ ShellFrame

\* run_backup_now: compress_folder has returned.
RunBackupNowReturned ==
    /\ \E t \in CommandTasks :
          /\ tasks[t].pc = "running"
          /\ tasks' = [tasks EXCEPT ![t].pc = "cleanup"]
    /\ UNCHANGED cancel_flags
    /\ ShellFrame

\* run_backup_now: flags.remove(&config_id).
RunBackupNowRemove ==
    /\ \E t \in CommandTasks :
          /\ tasks[t].pc = "cleanup"
          /\ cancel_flags' = [cancel_flags EXCEPT ![tasks[t].config_id] = 0]
          /\ tasks' = [tasks EXCEPT ![t] = IdleTask]
    /\ ShellFrame

\* cancel_backup: the flag found under config_id is set.
CancelBackup ==
    /\ \E c \in ConfigIds \cup {UnknownId} :
          LET t == cancel_flags[c]
          IN /\ t # 0
             /\ tasks[t].pc # "idle" /\ tasks[t].config_id = c /\ ~tasks[t].flag
             /\ tasks' = [tasks EXCEPT ![t].flag = TRUE]
    /\ UNCHANGED cancel_flags
    /\ ShellFrame

\* run_scheduled_backup and the scheduler's job: compress_folder is called
\* with no cancel flag.
ScheduledStart ==
    /\ \E t \in ScheduledTasks, c \in ConfigIds :
          /\ tasks[t].pc = "idle"
          /\ tasks' = [tasks EXCEPT ![t] = [pc |-> "running", config_id |-> c, flag |-> FALSE]]
    /\ UNCHANGED cancel_flags
    /\ ShellFrame

ScheduledReturned ==
    /\ \E t \in ScheduledTasks :
          /\ tasks[t].pc = "running"
          /\ tasks' = [tasks EXCEPT ![t] = IdleTask]
    /\ UNCHANGED cancel_flags
    /\ ShellFrame

(***************************************************************************)
(* The manifest of one configuration: run_backup_now (commands.rs), the    *)
(* CLI run (lib.rs) and the in-app job (scheduler.rs) each load it, call   *)
(* compress_folder, walk the source again and write the manifest back.     *)
(***************************************************************************)
Runs == 1..MaxRuns

RunKinds == {"command", "cli", "job"}

\* The files of the source folder of the configuration.
ManifestNames == {1}

NoManifestFile == [state |-> "absent", scan |-> 0, files |-> <<>>]

\* manifest: the previous manifest handed to compress_folder; stored: the
\* files compress_folder put into the artifact; seen: the source as the walk
\* for the new manifest found it; built: the entries of the new manifest.
IdleRun ==
    [pc |-> "idle", kind |-> "none", handed |-> FALSE, verdict |-> "none",
     read_partial |-> FALSE, scan |-> 0, detached |-> FALSE, wrote |-> FALSE,
     manifest |-> NoManifest, stored |-> <<>>, seen |-> <<>>, built |-> <<>>]

\* The destination folder with its artifacts, and one read_dir cannot list.
\* touched: the user removed artifacts from it.
Folder(as) == [readable |-> TRUE, artifacts |-> as, touched |-> FALSE]
Unreadable == [readable |-> FALSE, artifacts |-> <<>>, touched |-> TRUE]

ArtifactKind(m) ==
    CASE m = "Copy" -> "dir"
      [] m = "Compressed" -> "tar.zst"
      [] OTHER -> "tar.zst.enc"

\* The artifact run r leaves: the files compress_folder selected, as they
\* are in the source.
ArtifactOf(m, files, src, r) ==
    [kind |-> ArtifactKind(m), size |-> 1,
     files |-> [n \in {files[i] : i \in DOMAIN files} |-> src[n]], run |-> r]

OfKind(dir, k, n) == SelectSeq(SubSeq(dir, 1, n), LAMBDA a : a.kind = k)

\* verify_physical_backup_exists: "Err" when the folder cannot be listed,
\* otherwise whether the most recent artifact of the mode is there (Copy:
\* holds every file of the manifest with the size of its entry; archives:
\* is not empty).
verify_physical_backup_exists(dir, m, entries) ==
    IF ~dir.readable THEN "Err"
    ELSE LET found == OfKind(dir.artifacts, ArtifactKind(m), Len(dir.artifacts)) IN
         IF found = <<>> THEN "false"
         ELSE LET latest == found[Len(found)] IN
              IF m = "Copy"
              THEN IF \A n \in DOMAIN entries :
                         /\ n \in DOMAIN latest.files
                         /\ latest.files[n].size = entries[n].size
                   THEN "true" ELSE "false"
              ELSE IF latest.size = 0 THEN "false" ELSE "true"

\* The file list build_manifest is given after a backup: a walk of the
\* whole source (stored: the files the backup put into its artifact).
manifest_all_files_stored(src, stored) == stored
manifest_all_files(src, stored) == scan_all_files(src)

\* build_manifest: an entry for each file of the list whose metadata can be
\* read, with its size and modification time.
build_manifest(files, src) ==
    [n \in {files[i] : i \in DOMAIN files} \cap DOMAIN src |->
        [size |-> src[n].size, modified_at |-> src[n].modified_at,
         checksum |-> "sha256"]]

ManifestFrame == UNCHANGED << bvars, rvars, gvars, lvars, cvars >>

SourceEditFrame ==
    UNCHANGED << mode, backup_type, previous_manifest, password, pc, cancel_flag,
                 all_files, files_to_backup, index, backup_path, fs, result, job,
                 cancelAt, rvars, gvars, mvars, lvars, cvars >>

\* The user changes a file of the source folder ...
SourceTouch ==
    /\ \E n \in DOMAIN source :
          /\ source[n].modified_at < MaxStamp
          /\ source' = [source EXCEPT ![n].modified_at = @ + 1,
                                      ![n].data = (@ + 1) % 3]
    /\ SourceEditFrame

\* ... or deletes one.
SourceDelete ==
    /\ \E n \in DOMAIN source :
          source' = [k \in DOMAIN source \ {n} |-> source[k]]
    /\ SourceEditFrame

\* A run of the configuration begins: the command, the CLI run or the job.
RunStart ==
    /\ \E r \in Runs, k \in RunKinds :
          /\ runs[r].pc = "idle"
          /\ runs' = [runs EXCEPT ![r] = [IdleRun EXCEPT !.pc = "load", !.kind = k]]
    /\ UNCHANGED << manifest_file, dest_dir, scans >>
    /\ ManifestFrame

\* The previous manifest of an Incremental configuration is loaded.  Only
\* run_backup_now asks verify_physical_backup_exists; on false it removes
\* the file.  A file that does not parse is treated as no manifest.
RunLoadManifest ==
    /\ \E r \in Runs :
          /\ runs[r].pc = "load"
          /\ LET parsed == manifest_file.state = "complete"
                 verdict == IF parsed /\ runs[r].kind = "command"
                            THEN verify_physical_backup_exists(dest_dir, mode,
                                                               manifest_file.files)
                            ELSE "none"
                 handed == parsed /\ verdict \in {"none", "true"}
             IN /\ manifest_file' = IF verdict = "false" THEN NoManifestFile
                                    ELSE manifest_file
                /\ runs' = [q \in Runs |->
                              IF q = r
                              THEN [runs[r] EXCEPT !.pc = "backup", !.handed = handed,
                                                   !.verdict = verdict,
                                                   !.read_partial =
                                                       (manifest_file.state = "partial"),
                                                   !.manifest =
                                                       IF handed
                                                       THEN [present |-> TRUE,
                                                             files |-> manifest_file.files]
                                                       ELSE NoManifest]
                              ELSE IF verdict = "false" /\ runs[q].pc = "writing"
                                   THEN [runs[q] EXCEPT !.detached = TRUE]
                                   ELSE runs[q]]
    /\ UNCHANGED << dest_dir, scans >>
    /\ ManifestFrame

\* compress_folder returns Ok, leaving an artifact with every file (no
\* manifest) or with the files scan_changed_files selected, or Err.
RunBackup ==
    /\ \E r \in Runs :
          /\ runs[r].pc = "backup"
          /\ \/ LET stored == IF runs[r].manifest.present
                              THEN scan_changed_files(source, runs[r].manifest)
                              ELSE scan_all_files(source)
                IN /\ dest_dir' = [readable |-> TRUE,
                                   artifacts |-> Append(dest_dir.artifacts,
                                                        ArtifactOf(mode, stored, source, r)),
                                   touched |-> dest_dir.touched]
                   /\ runs' = [runs EXCEPT ![r].pc = "scan", ![r].stored = stored]
             \/ /\ runs' = [runs EXCEPT ![r].pc = "done"]
                /\ UNCHANGED dest_dir
    /\ UNCHANGED << manifest_file, scans >>
    /\ ManifestFrame

\* scan_all_files and build_manifest for the new manifest.
RunScan ==
    /\ \E r \in Runs :
          /\ runs[r].pc = "scan"
          /\ \/ /\ scans' = scans + 1
                /\ runs' = [runs EXCEPT
                              ![r].pc = "write", ![r].scan = scans + 1,
                              ![r].seen = source,
                              ![r].built =
                                  build_manifest(manifest_all_files(source, runs[r].stored),
                                                 source)]
             \/ /\ runs' = [runs EXCEPT ![r].pc = "done"]
                /\ UNCHANGED scans
    /\ UNCHANGED << manifest_file, dest_dir >>
    /\ ManifestFrame

\* fs::write opens the manifest file truncating it ...
RunWriteBegin ==
    /\ \E r \in Runs :
          /\ runs[r].pc = "write"
          /\ manifest_file' = [state |-> "partial", scan |-> runs[r].scan, files |-> <<>>]
          /\ runs' = [runs EXCEPT ![r].pc = "writing"]
    /\ UNCHANGED << dest_dir, scans >>
    /\ ManifestFrame

\* ... and writes the JSON.  A writer whose file was removed meanwhile
\* writes to the unlinked file; with another writer at work the bytes of
\* the two may mix.
RunWriteEnd ==
    /\ \E r \in Runs :
          /\ runs[r].pc = "writing"
          /\ runs' = [runs EXCEPT ![r].pc = "done", ![r].wrote = ~runs[r].detached]
          /\ IF runs[r].detached
             THEN UNCHANGED manifest_file
             ELSE \/ manifest_file' = [state |-> "complete", scan |-> runs[r].scan,
                                       files |-> runs[r].built]
                  \/ /\ \E q \in Runs \ {r} : runs[q].pc = "writing" /\ ~runs[q].detached
                     /\ manifest_file' = [manifest_file EXCEPT !.state = "partial",
                                                               !.files = <<>>]
    /\ UNCHANGED << dest_dir, scans >>
    /\ ManifestFrame

\* The user empties the destination folder, or removes it.
ClearDestination ==
    /\ dest_dir.artifacts # <<>>
    /\ dest_dir' \in {[Folder(<<>>) EXCEPT !.touched = TRUE], Unreadable}
    /\ UNCHANGED << manifest_file, runs, scans >>
    /\ ManifestFrame

(***************************************************************************)
(* launchd.rs: cron expressions, descriptors (.plist) and launchctl.       *)
(* A cron field is a sequence of one-character strings; an expression is   *)
(* the sequence of fields split_whitespace yields.                         *)
(***************************************************************************)
DigitChars == {"0", "1", "2", "3", "4", "5", "6", "7", "8", "9"}

RECURSIVE DecimalValue(_)
DecimalValue(str) ==
    IF str = <<>> THEN 0
    ELSE 10 * DecimalValue(SubSeq(str, 1, Len(str) - 1))
         + (CHOOSE d \in 0..9 : ToString(d) = str[Len(str)])

\* str::parse::<i32>: an optional sign, then one or more digits.
parse_i32(str) ==
    LET signed == str # <<>> /\ str[1] \in {"+", "-"}
        body == IF signed THEN Tail(str) ELSE str
    IN IF body = <<>> \/ \E i \in 1..Len(body) : body[i] \notin DigitChars
       THEN [ok |-> FALSE, val |-> 0]
       ELSE [ok |-> TRUE,
             val |-> IF signed /\ str[1] = "-" THEN 0 - DecimalValue(body)
                     ELSE DecimalValue(body)]

\* str::split on one character.
RECURSIVE split(_, _)
split(str, sep) ==
    IF \A i \in 1..Len(str) : str[i] # sep THEN << str >>
    ELSE LET k == CHOOSE i \in 1..Len(str) :
                      str[i] = sep /\ \A j \in 1..(i - 1) : str[j] # sep
         IN << SubSeq(str, 1, k - 1) >> \o split(SubSeq(str, k + 1, Len(str)), sep)

Star == << "*" >>

FieldErr == [ok |-> FALSE, vals |-> <<>>]

parse_cron_field_lenient(field, min, max) == [ok |-> TRUE, vals |-> << min >>]

parse_cron_field(field, min, max) ==
    IF field = Star THEN [ok |-> TRUE, vals |-> <<>>]
    ELSE IF \E i \in 1..Len(field) : field[i] = ","
    THEN LET parts == split(field, ",")
             nums == [i \in 1..Len(parts) |-> parse_i32(parts[i])]
         IN IF \A i \in 1..Len(parts) :
                   nums[i].ok /\ nums[i].val >= min /\ nums[i].val <= max
            THEN [ok |-> TRUE, vals |-> [i \in 1..Len(parts) |-> nums[i].val]]
            ELSE FieldErr
    ELSE IF \E i \in 1..Len(field) : field[i] = "-"
    THEN LET parts == split(field, "-") IN
         IF Len(parts) # 2 THEN FieldErr
         ELSE LET start == parse_i32(parts[1])
                  end == parse_i32(parts[2])
              IN IF ~start.ok \/ ~end.ok THEN FieldErr
                 ELSE IF start.val < min \/ end.val > max \/ start.val > end.val
                 THEN FieldErr
                 ELSE [ok |-> TRUE,
                       vals |-> [i \in 1..(end.val - start.val + 1) |-> start.val + i - 1]]
    ELSE LET val == parse_i32(field) IN
         IF ~val.ok \/ val.val < min \/ val.val > max THEN FieldErr
         ELSE [ok |-> TRUE, vals |-> << val.val >>]

\* The ranges of minute, hour, day, month and weekday.
FieldRange == << [min |-> 0, max |-> 59], [min |-> 0, max |-> 23], [min |-> 1, max |-> 31],
                 [min |-> 1, max |-> 12], [min |-> 0, max |-> 6] >>

\* Option::None of a CalendarInterval field.
None == 0 - 1

\* A CalendarInterval is << minute, hour, day, month, weekday >>.
parse_cron_to_calendar_interval(parts) ==
    IF Len(parts) # 5 THEN [ok |-> FALSE, intervals |-> <<>>]
    ELSE LET f == [i \in 1..5 |->
                      parse_cron_field(parts[i], FieldRange[i].min, FieldRange[i].max)]
             minutes == f[1].vals
             hours == f[2].vals
             first(i) == IF f[i].vals = <<>> THEN None ELSE f[i].vals[1]
         IN IF (\E i \in 1..5 : ~f[i].ok) \/ minutes = <<>> \/ hours = <<>>
            THEN [ok |-> FALSE, intervals |-> <<>>]
            ELSE [ok |-> TRUE,
                  intervals |->
                      [k \in 1..(Len(minutes) * Len(hours)) |->
                          << minutes[((k - 1) \div Len(hours)) + 1],
                             hours[((k - 1) % Len(hours)) + 1],
                             first(3), first(4), first(5) >>]]

NoPlist == [label |-> <<>>, intervals |-> <<>>]

\* get_agent_label: "com.inlocker.backup." followed by the config_id.
get_agent_label(config_id) == << "com.inlocker.backup." >> \o config_id

generate_plist_content(config_id, cron_expr) ==
    LET parsed == parse_cron_to_calendar_interval(cron_expr) IN
    [ok |-> parsed.ok,
     content |-> IF parsed.ok
                 THEN [label |-> get_agent_label(config_id), intervals |-> parsed.intervals]
                 ELSE NoPlist]

\* String::contains.
Contains(text, word) ==
    \E i \in 0..(Len(text) - Len(word)) : SubSeq(text, i + 1, i + Len(word)) = word

\* is_agent_loaded: `launchctl list` fails, or its output contains the label.
is_agent_loaded(jobs, config_id, list_ok) ==
    IF ~list_ok THEN "Err"
    ELSE IF \E c \in DOMAIN jobs :
               jobs[c] # NoPlist /\ Contains(jobs[c].label, get_agent_label(config_id))
    THEN "true" ELSE "false"

\* Two config ids, the first a prefix of the second.
LaunchIds == {<< "1" >>, << "1", "2" >>}

\* Cron expressions handed to install_launch_agent: "0 2 * * *",
\* "0,30 1-2 * * *", "0 9 * * 1-5", and malformed ones: four fields, a
\* non-numeric minute, an hour out of range, a day range with start > end,
\* a month list with a non-numeric item, weekday 7.
CronExprs ==
    { << <<"0">>, <<"2">>, Star, Star, Star >>,
      << <<"0", ",", "3", "0">>, <<"1", "-", "2">>, Star, Star, Star >>,
      << <<"0">>, <<"9">>, Star, Star, <<"1", "-", "5">> >>,
      << <<"0">>, <<"2">>, Star, Star >>,
      << <<"x">>, <<"2">>, Star, Star, Star >>,
      << <<"0">>, <<"2", "4">>, Star, Star, Star >>,
      << <<"0">>, <<"2">>, <<"5", "-", "1">>, Star, Star >>,
      << <<"0">>, <<"2">>, Star, <<"1", ",", "x">>, Star >>,
      << <<"0">>, <<"2">>, Star, Star, <<"7">> >> }

NoCall ==
    [op |-> "none", pc |-> "done", config_id |-> <<>>, cron_expr |-> <<>>,
     generated |-> NoPlist, existed |-> FALSE, reported |-> "none", result |-> "none",
     before |-> [plist |-> NoPlist, job |-> NoPlist]]

LaunchdFrame == UNCHANGED << bvars, rvars, gvars, mvars, cvars >>

\* The call returns.
Returned(res) == [last EXCEPT !.pc = "done", !.result = res]

\* install_launch_agent, step 3: the descriptor's content is generated; a
\* cron expression that does not parse ends the call.
InstallGenerate ==
    /\ calls < MaxCalls
    /\ last.pc = "done"
    /\ \E c \in LaunchIds, e \in CronExprs :
          last' = [NoCall EXCEPT !.op = "install", !.config_id = c, !.cron_expr = e,
                                 !.before = [plist |-> plists[c], job |-> loaded[c]],
                                 !.generated = generate_plist_content(c, e).content,
                                 !.pc = IF generate_plist_content(c, e).ok
                                        THEN "bootout" ELSE "done",
                                 !.result = IF generate_plist_content(c, e).ok
                                            THEN "none" ELSE "Err"]
    /\ calls' = calls + 1
    /\ UNCHANGED << plists, loaded >>
    /\ LaunchdFrame

\* Step 3.5: if the descriptor exists, `launchctl bootout`; it unloads the
\* job, or fails, which is logged and the call goes on.
InstallBootout ==
    /\ last.op = "install" /\ last.pc = "bootout"
    /\ last' = [last EXCEPT !.pc = "write", !.existed = plists[last.config_id] # NoPlist]
    /\ \/ /\ plists[last.config_id] # NoPlist
          /\ loaded' = [loaded EXCEPT ![last.config_id] = NoPlist]
       \/ UNCHANGED loaded
    /\ UNCHANGED << plists, calls >>
    /\ LaunchdFrame

\* Steps 4 to 6: fs::write of the descriptor, then it is read back.
InstallWrite ==
    /\ last.op = "install" /\ last.pc = "write"
    /\ \/ /\ plists' = [plists EXCEPT ![last.config_id] = last.generated]
          /\ last' = [last EXCEPT !.pc = "bootstrap"]
       \/ /\ last' = Returned("Err")
          /\ UNCHANGED plists
    /\ UNCHANGED << loaded, calls >>
    /\ LaunchdFrame

\* Step 7: `launchctl bootstrap` loads the descriptor; "service is already
\* loaded" and "Bootstrap failed: 5" are taken as success.
InstallBootstrap ==
    /\ last.op = "install" /\ last.pc = "bootstrap"
    /\ IF loaded[last.config_id] # NoPlist
       THEN /\ last' = [last EXCEPT !.pc = "verify"]
            /\ UNCHANGED loaded
       ELSE \/ /\ loaded' = [loaded EXCEPT ![last.config_id] = plists[last.config_id]]
               /\ last' = [last EXCEPT !.pc = "verify"]
            \/ /\ last' = [last EXCEPT !.pc = "verify"]
               /\ UNCHANGED loaded
            \/ /\ last' = Returned("Err")
               /\ UNCHANGED loaded
    /\ UNCHANGED << plists, calls >>
    /\ LaunchdFrame

\* Step 8: is_agent_loaded; Ok(false) is an error, Err is logged.
InstallVerify ==
    /\ last.op = "install" /\ last.pc = "verify"
    /\ \E list_ok \in BOOLEAN :
          last' = [last EXCEPT
                      !.pc = "done",
                      !.reported = is_agent_loaded(loaded, last.config_id, list_ok),
                      !.result = IF is_agent_loaded(loaded, last.config_id, list_ok) = "false"
                                 THEN "Err" ELSE "Ok"]
    /\ UNCHANGED << plists, loaded, calls >>
    /\ LaunchdFrame

\* uninstall_launch_agent: `launchctl bootout`, whose failure is logged ...
UninstallBootout ==
    /\ calls < MaxCalls
    /\ last.pc = "done"
    /\ \E c \in LaunchIds :
          /\ last' = [NoCall EXCEPT !.op = "uninstall", !.config_id = c, !.pc = "remove"]
          /\ \/ loaded' = [loaded EXCEPT ![c] = NoPlist]
             \/ UNCHANGED loaded
    /\ calls' = calls + 1
    /\ UNCHANGED plists
    /\ LaunchdFrame

\* ... then the descriptor is removed if it exists.
UninstallRemove ==
    /\ last.op = "uninstall" /\ last.pc = "remove"
    /\ \/ /\ plists' = [plists EXCEPT ![last.config_id] = NoPlist]
          /\ last' = [Returned("Ok") EXCEPT !.existed = plists[last.config_id] # NoPlist]
       \/ /\ plists[last.config_id] # NoPlist
          /\ last' = [Returned("Err") EXCEPT !.existed = TRUE]
          /\ UNCHANGED plists
    /\ UNCHANGED << loaded, calls >>
    /\ LaunchdFrame

\* check_schedule_status: is_agent_loaded, an Err read as false.
CheckScheduleStatus ==
    /\ calls < MaxCalls
    /\ last.pc = "done"
    /\ \E c \in LaunchIds, list_ok \in BOOLEAN :
          last' = [NoCall EXCEPT !.op = "status", !.config_id = c,
                                 !.reported = is_agent_loaded(loaded, c, list_ok),
                                 !.result = IF is_agent_loaded(loaded, c, list_ok) = "true"
                                            THEN "true" ELSE "false"]
    /\ calls' = calls + 1
    /\ UNCHANGED << plists, loaded >>
    /\ LaunchdFrame

(***************************************************************************)
(* Initial states and specifications.                                      *)
(***************************************************************************)
(***************************************************************************)
(* The configuration commands (commands.rs) over AppState.configs, the     *)
(* file configs.json and the two mutexes of AppState.                      *)
(***************************************************************************)
Cmds == 1..MaxCmds

\* The one configuration id the commands are called with.
StoredIds == {1}

\* Option::None of a numeric or string field.
NoneValue == 0

NoConfig == [id |-> 0, encryption_password |-> NoneValue, last_backup_at |-> NoneValue]

ConfigFields == DOMAIN NoConfig

\* serde on BackupConfig: every field is written ...
serialized_fields_all == ConfigFields
\* ... but encryption_password, which is skip_serializing.
serialized_fields == ConfigFields \ {"encryption_password"}

\* serde_json::to_string_pretty of one BackupConfig.
to_json(c) == [k \in serialized_fields |-> c[k]]

\* serde_json::from_str of one BackupConfig: a field the JSON lacks gets
\* its default.
from_json(e) == [k \in ConfigFields |-> IF k \in DOMAIN e THEN e[k] ELSE NoneValue]

NoConfigFile == [exists |-> FALSE, entries |-> <<>>]

\* fs::write(&config_path, serde_json::to_string_pretty(&*configs)).
Persisted(cs) == [exists |-> TRUE, entries |-> [i \in DOMAIN cs |-> to_json(cs[i])]]

IdleCmd == [op |-> "none", pc |-> "idle", config_id |-> 0, arg |-> NoConfig, loaded |-> <<>>]

\* The command returned; its locals are gone.
Finished(p) ==
    [IdleCmd EXCEPT !.op = cmds[p].op, !.pc = "done", !.loaded = cmds[p].loaded]

Free(name) == locks[name] = 0

ConfigFrame == UNCHANGED << bvars, rvars, gvars, mvars, lvars >>

\* A command is invoked (at most MaxCmds at a time).
CmdInvoke ==
    /\ \E p \in Cmds, i \in StoredIds, pw \in {NoneValue, 1},
          op \in {"save_config", "load_configs", "delete_config", "run_backup_now",
                  "verify_backup_exists", "register_schedule"} :
          /\ cmds[p].pc \in {"idle", "done"}
          /\ pw # NoneValue => op = "save_config"
          /\ cmds' = [cmds EXCEPT ![p] =
                        [IdleCmd EXCEPT !.op = op, !.pc = "called", !.config_id = i,
                                        !.arg = IF op = "save_config"
                                                THEN [NoConfig EXCEPT !.id = i,
                                                        !.encryption_password = pw]
                                                ELSE NoConfig]]
    /\ UNCHANGED << configs, config_file, locks >>
    /\ ConfigFrame

\* save_config: state.configs.lock(), then the config replaces the one of
\* its id or is pushed.
SaveConfigLock ==
    /\ \E p \in Cmds :
          /\ cmds[p].op = "save_config" /\ cmds[p].pc = "called"
          /\ Free("configs")
          /\ locks' = [locks EXCEPT !.configs = p]
          /\ configs' = [i \in DOMAIN configs \cup {cmds[p].arg.id} |->
                            IF i = cmds[p].arg.id THEN cmds[p].arg ELSE configs[i]]
          /\ cmds' = [cmds EXCEPT ![p].pc = "write"]
    /\ UNCHANGED config_file
    /\ ConfigFrame

\* save_config: fs::write of the serialized configs; the guard is dropped
\* when the function returns.
SaveConfigWrite ==
    /\ \E p \in Cmds :
          /\ cmds[p].op = "save_config" /\ cmds[p].pc = "write"
          /\ \/ config_file' = Persisted(configs)
             \/ UNCHANGED config_file
          /\ locks' = [locks EXCEPT !.configs = 0]
          /\ cmds' = [cmds EXCEPT ![p] = Finished(p)]
    /\ UNCHANGED configs
    /\ ConfigFrame

\* load_configs: fs::read_to_string and serde_json::from_str.
LoadConfigsRead ==
    /\ \E p \in Cmds :
          /\ cmds[p].op = "load_configs" /\ cmds[p].pc = "called"
          /\ cmds' = [cmds EXCEPT
                        ![p].pc = IF config_file.exists THEN "store" ELSE "done",
                        ![p].loaded = [i \in DOMAIN config_file.entries |->
                                          from_json(config_file.entries[i])]]
    /\ UNCHANGED << configs, config_file, locks >>
    /\ ConfigFrame

\* load_configs: *configs = loaded_configs under the lock.
LoadConfigsStore ==
    /\ \E p \in Cmds :
          /\ cmds[p].op = "load_configs" /\ cmds[p].pc = "store"
          /\ Free("configs")
          /\ configs' = cmds[p].loaded
          /\ cmds' = [cmds EXCEPT ![p] = Finished(p)]
    /\ UNCHANGED << config_file, locks >>
    /\ ConfigFrame

\* delete_config: state.configs.lock() and configs.retain.
DeleteConfigLock ==
    /\ \E p \in Cmds :
          /\ cmds[p].op = "delete_config" /\ cmds[p].pc = "called"
          /\ Free("configs")
          /\ configs' = [i \in DOMAIN configs \ {cmds[p].config_id} |-> configs[i]]
          /\ IF cmds[p].config_id \in DOMAIN configs
             THEN /\ locks' = [locks EXCEPT !.configs = p]
                  /\ cmds' = [cmds EXCEPT ![p].pc = "write"]
             ELSE /\ UNCHANGED locks
                  /\ cmds' = [cmds EXCEPT ![p] = Finished(p)]
    /\ UNCHANGED config_file
    /\ ConfigFrame

\* delete_config: fs::write inside the block that holds the guard.
DeleteConfigWrite ==
    /\ \E p \in Cmds :
          /\ cmds[p].op = "delete_config" /\ cmds[p].pc = "write"
          /\ \/ config_file' = Persisted(configs)
             \/ UNCHANGED config_file
          /\ locks' = [locks EXCEPT !.configs = 0]
          /\ cmds' = [cmds EXCEPT ![p] = Finished(p)]
    /\ UNCHANGED configs
    /\ ConfigFrame

\* run_backup_now: state.cancel_flags.lock() for the insert ...
RunNowFlagsLock ==
    /\ \E p \in Cmds :
          /\ cmds[p].op = "run_backup_now" /\ cmds[p].pc = "called"
          /\ Free("cancel_flags")
          /\ locks' = [locks EXCEPT !.cancel_flags = p]
          /\ cmds' = [cmds EXCEPT ![p].pc = "inserted"]
    /\ UNCHANGED << configs, config_file >>
    /\ ConfigFrame

\* ... and the end of that block.
RunNowFlagsUnlock ==
    /\ \E p \in Cmds :
          /\ cmds[p].op = "run_backup_now" /\ cmds[p].pc = "inserted"
          /\ locks' = [locks EXCEPT !.cancel_flags = 0]
          /\ cmds' = [cmds EXCEPT ![p].pc = "get"]
    /\ UNCHANGED << configs, config_file >>
    /\ ConfigFrame

\* run_backup_now: the config is cloned under the lock, drop(configs).
RunNowClone ==
    /\ \E p \in Cmds :
          /\ cmds[p].op = "run_backup_now" /\ cmds[p].pc = "get"
          /\ Free("configs")
          /\ IF cmds[p].config_id \in DOMAIN configs
             THEN cmds' = [cmds EXCEPT ![p].pc = "backup",
                                       ![p].arg = configs[cmds[p].config_id]]
             ELSE cmds' = [cmds EXCEPT ![p] = Finished(p)]
    /\ UNCHANGED << configs, config_file, locks >>
    /\ ConfigFrame

\* run_backup_now: the manifest is read and compress_folder runs; on Ok the
\* config's last_backup fields are set under the lock.
RunNowBackup ==
    /\ \E p \in Cmds :
          /\ cmds[p].op = "run_backup_now" /\ cmds[p].pc = "backup"
          /\ \/ /\ Free("configs")
                /\ configs' = [i \in DOMAIN configs |->
                                  IF i = cmds[p].config_id
                                  THEN [configs[i] EXCEPT !.last_backup_at = 1]
                                  ELSE configs[i]]
                /\ cmds' = [cmds EXCEPT ![p].pc = "persist"]
             \/ /\ cmds' = [cmds EXCEPT ![p] = Finished(p)]
                /\ UNCHANGED configs
    /\ UNCHANGED << config_file, locks >>
    /\ ConfigFrame

\* run_backup_now, "Persist configs": state.configs.lock() ...
RunNowPersistLock ==
    /\ \E p \in Cmds :
          /\ cmds[p].op = "run_backup_now" /\ cmds[p].pc = "persist"
          /\ Free("configs")
          /\ locks' = [locks EXCEPT !.configs = p]
          /\ cmds' = [cmds EXCEPT ![p].pc = "write"]
    /\ UNCHANGED << configs, config_file >>
    /\ ConfigFrame

\* ... and fs::write before the block ends.
RunNowPersistWrite ==
    /\ \E p \in Cmds :
          /\ cmds[p].op = "run_backup_now" /\ cmds[p].pc = "write"
          /\ \/ config_file' = Persisted(configs)
             \/ UNCHANGED config_file
          /\ locks' = [locks EXCEPT !.configs = 0]
          /\ cmds' = [cmds EXCEPT ![p] = Finished(p)]
    /\ UNCHANGED configs
    /\ ConfigFrame

\* verify_backup_exists: state.configs.lock(), the guard lives to the end
\* of the function.
VerifyBackupLock ==
    /\ \E p \in Cmds :
          /\ cmds[p].op = "verify_backup_exists" /\ cmds[p].pc = "called"
          /\ Free("configs")
          /\ IF cmds[p].config_id \in DOMAIN configs
                /\ configs[cmds[p].config_id].last_backup_at # NoneValue
             THEN /\ locks' = [locks EXCEPT !.configs = p]
                  /\ cmds' = [cmds EXCEPT ![p].pc = "read_dir"]
             ELSE /\ UNCHANGED locks
                  /\ cmds' = [cmds EXCEPT ![p] = Finished(p)]
    /\ UNCHANGED << configs, config_file >>
    /\ ConfigFrame

\* verify_backup_exists: dest_dir.exists(), std::fs::read_dir(dest_dir).
VerifyBackupReadDir ==
    /\ \E p \in Cmds :
          /\ cmds[p].op = "verify_backup_exists" /\ cmds[p].pc = "read_dir"
          /\ locks' = [locks EXCEPT !.configs = 0]
          /\ cmds' = [cmds EXCEPT ![p] = Finished(p)]
    /\ UNCHANGED << configs, config_file >>
    /\ ConfigFrame

\* register_schedule: the config is cloned inside a block ...
RegisterScheduleClone ==
    /\ \E p \in Cmds :
          /\ cmds[p].op = "register_schedule" /\ cmds[p].pc = "called"
          /\ Free("configs")
          /\ IF cmds[p].config_id \in DOMAIN configs
             THEN cmds' = [cmds EXCEPT ![p].pc = "install",
                                       ![p].arg = configs[cmds[p].config_id]]
             ELSE cmds' = [cmds EXCEPT ![p] = Finished(p)]
    /\ UNCHANGED << configs, config_file, locks >>
    /\ ConfigFrame

\* ... and launchd::install_launch_agent runs after it.
RegisterScheduleInstall ==
    /\ \E p \in Cmds :
          /\ cmds[p].op = "register_schedule" /\ cmds[p].pc = "install"
          /\ cmds' = [cmds EXCEPT ![p] = Finished(p)]
    /\ UNCHANGED << configs, config_file, locks >>
    /\ ConfigFrame

\* The program positions at which a command waits for the file system or
\* for the backup.
IoWaits == {"write", "read_dir", "backup", "install"}

ShellIdle ==
    /\ cancel_flags = [c \in ConfigIds \cup {UnknownId} |-> 0]
    /\ tasks = [t \in Tasks |-> IdleTask]

ConfigIdle ==
    /\ configs = <<>>
    /\ config_file = NoConfigFile
    /\ locks = [configs |-> 0, cancel_flags |-> 0]
    /\ cmds = [p \in Cmds |-> IdleCmd]

RestoreIdle ==
    /\ tamper = NoTamper
    /\ restore = NoRestore

ManifestIdle ==
    /\ manifest_file = NoManifestFile
    /\ dest_dir = Folder(<<>>)
    /\ runs = [r \in Runs |-> IdleRun]
    /\ scans = 0

LaunchdIdle ==
    /\ plists = [c \in LaunchIds |-> NoPlist]
    /\ loaded = [c \in LaunchIds |-> NoPlist]
    /\ last = NoCall
    /\ calls = 0

InitBackup ==
    /\ \E n \in 0..MaxFiles : source = TreeOf(n)
    /\ mode \in {"Copy", "Compressed", "Encrypted"}
    /\ backup_type \in {"Full", "Incremental"}
    /\ \/ previous_manifest = NoManifest
       \/ /\ backup_type = "Incremental"
          /\ \E m \in 0..Len(source) : previous_manifest = ManifestOf(source, m)
    /\ password \in {0, 1}
    /\ CallStart
    /\ RestoreIdle
    /\ ShellIdle
    /\ ManifestIdle
    /\ LaunchdIdle
    /\ ConfigIdle

\* One backup of a small tree, then the artifact is restored.
InitRestore ==
    /\ \E n \in 0..MaxRestoreFiles : source = TreeOf(n)
    /\ mode \in {"Copy", "Compressed", "Encrypted"}
    /\ backup_type \in {"Full", "Incremental"}
    /\ \/ previous_manifest = NoManifest
       \/ /\ backup_type = "Incremental"
          /\ \E m \in 0..Len(source) : previous_manifest = ManifestOf(source, m)
    /\ password \in {0, 1}
    /\ CallStart
    /\ RestoreIdle
    /\ ShellIdle
    /\ ManifestIdle
    /\ LaunchdIdle
    /\ ConfigIdle

\* An Incremental backup in Compressed mode of some of the files ScanNames,
\* against a manifest that describes some of them.
ScanNames == 1..MaxScanFiles

ManifestEntries ==
    [size : 1..MaxStamp, modified_at : 1..MaxStamp, checksum : {"sha256", "fallback"}]

\* Between the walk of scan_all_files and the walk of scan_changed_files a
\* file appears in the source folder.
SourceGrows ==
    /\ pc = "select"
    /\ \E n \in ScanNames \ DOMAIN source :
          source' = [k \in DOMAIN source \cup {n} |->
                        IF k = n THEN [size |-> 1, modified_at |-> 1, data |-> n % 3]
                        ELSE source[k]]
    /\ UNCHANGED << mode, backup_type, previous_manifest, password, pc, cancel_flag,
                    all_files, files_to_backup, index, backup_path, fs, result, job,
                    cancelAt, rvars, gvars, mvars, lvars, cvars >>

InitScan ==
    /\ \E S \in SUBSET ScanNames :
          source = [n \in S |-> [size |-> 1, modified_at |-> 1, data |-> n % 3]]
    /\ mode = "Compressed"
    /\ backup_type = "Incremental"
    /\ \E M \in SUBSET ScanNames :
          previous_manifest \in {[present |-> TRUE, files |-> f] : f \in [M -> ManifestEntries]}
    /\ password = 0
    /\ CallStart
    /\ RestoreIdle
    /\ ShellIdle
    /\ ManifestIdle
    /\ LaunchdIdle
    /\ ConfigIdle

\* No backup or restore call: the shell's tasks alone.
InitShell ==
    /\ source = TreeOf(0)
    /\ mode = "Copy"
    /\ backup_type = "Full"
    /\ previous_manifest = NoManifest
    /\ password = 0
    /\ CallStart
    /\ RestoreIdle
    /\ ShellIdle
    /\ ManifestIdle
    /\ LaunchdIdle
    /\ ConfigIdle

NextBackup == SetCancel \/ CompressFolder

SpecBackup == InitBackup /\ [][NextBackup]_vars

\* What a full backup of src that returned Ok left at its backup_path.
CommittedArtifact(src, m, pwd, salt, nonce) ==
    CASE m = "Copy" -> DirNode([n \in DOMAIN src |-> src[n].data])
      [] m = "Compressed" -> FileNode(StreamFinished(src, scan_all_files(src)))
      [] OTHER -> FileNode(FrameOf(encrypt(StreamFinished(src, scan_all_files(src)),
                                           pwd, salt, nonce)))

\* A call that plans the artifact name of a full backup that returned Ok
\* within the same second: the same type, the same timestamp.
InitRerun ==
    /\ \E n \in 0..MaxRestoreFiles : source = TreeOf(n)
    /\ mode \in {"Copy", "Compressed", "Encrypted"}
    /\ backup_type = "Full"
    /\ previous_manifest = NoManifest
    /\ password = 1
    /\ pc = "start"
    /\ cancel_flag = FALSE
    /\ all_files = <<>>
    /\ files_to_backup = <<>>
    /\ index = 0
    /\ backup_path = [actual |-> "", ext |-> ""]
    /\ \E salt \in Salts, nonce \in Nonces :
          fs = [artifact |-> CommittedArtifact(source, mode, password, salt, nonce),
                temp |-> NoNode]
    /\ result = "none"
    /\ job = [files_count |-> Len(source),
              checksum |-> IF mode = "Copy" THEN NoChecksum
                           ELSE calculate_checksum(fs.artifact.bytes),
              backup_path |-> [actual |-> "full",
                               ext |-> CASE mode = "Copy" -> "copy"
                                         [] mode = "Compressed" -> "zst"
                                         [] OTHER -> "enc"]]
    /\ cancelAt = [pc |-> "never", index |-> 0]
    /\ RestoreIdle
    /\ ShellIdle
    /\ ManifestIdle
    /\ LaunchdIdle
    /\ ConfigIdle

SpecRerun == InitRerun /\ [][NextBackup]_vars

\* No configuration yet, no configs.json.
InitConfig ==
    /\ source = TreeOf(0)
    /\ mode = "Compressed"
    /\ backup_type = "Full"
    /\ previous_manifest = NoManifest
    /\ password = 0
    /\ CallStart
    /\ RestoreIdle
    /\ ShellIdle
    /\ ManifestIdle
    /\ LaunchdIdle
    /\ ConfigIdle

NextConfig ==
    \/ CmdInvoke
    \/ SaveConfigLock \/ SaveConfigWrite
    \/ LoadConfigsRead \/ LoadConfigsStore
    \/ DeleteConfigLock \/ DeleteConfigWrite
    \/ RunNowFlagsLock \/ RunNowFlagsUnlock \/ RunNowClone \/ RunNowBackup
    \/ RunNowPersistLock \/ RunNowPersistWrite
    \/ VerifyBackupLock \/ VerifyBackupReadDir
    \/ RegisterScheduleClone \/ RegisterScheduleInstall

SpecConfig == InitConfig /\ [][NextConfig]_vars

NextRestore == CompressFolder \/ FlipByte \/ Truncate \/ AppendByte \/ PlantHostile \/ Restore

SpecRestore == InitRestore /\ [][NextRestore]_vars

NextScan ==
    \/ Start \/ Scan \/ SourceGrows \/ Select \/ Scanned
    \/ MkDest \/ Create \/ WriterStep \/ WriterFinish \/ Checksum

SpecScan == InitScan /\ [][NextScan]_vars

NextShell ==
    \/ RunBackupNowInsert \/ RunBackupNowLookup \/ RunBackupNowManifestPath
    \/ RunBackupNowReturned
    \/ RunBackupNowRemove \/ CancelBackup \/ ScheduledStart \/ ScheduledReturned

SpecShell == InitShell /\ [][NextShell]_vars

\* An Incremental configuration with or without a manifest and an artifact
\* of an earlier session.
InitManifest ==
    /\ source = TreeOf(1)
    /\ mode \in {"Copy", "Compressed"}
    /\ backup_type = "Incremental"
    /\ previous_manifest = NoManifest
    /\ password = 0
    /\ CallStart
    /\ RestoreIdle
    /\ ShellIdle
    /\ \E had \in BOOLEAN, kept \in BOOLEAN :
          /\ manifest_file =
                IF had
                THEN [state |-> "complete", scan |-> 0,
                      files |-> build_manifest(scan_all_files(source), source)]
                ELSE NoManifestFile
          /\ dest_dir =
                IF kept
                THEN Folder(<< ArtifactOf(mode, scan_all_files(source), source, 0) >>)
                ELSE [Folder(<<>>) EXCEPT !.touched = had]
    /\ runs = [r \in Runs |-> IdleRun]
    /\ scans = 0
    /\ LaunchdIdle
    /\ ConfigIdle

NextManifest ==
    \/ RunStart \/ RunLoadManifest \/ RunBackup \/ RunScan
    \/ RunWriteBegin \/ RunWriteEnd \/ ClearDestination
    \/ SourceTouch \/ SourceDelete

SpecManifest == InitManifest /\ [][NextManifest]_vars

\* The same configuration with a single run: no other run is started while
\* it loads, backs up and writes the manifest back.
InitWriteback ==
    /\ source = TreeOf(1)
    /\ mode \in {"Copy", "Compressed"}
    /\ backup_type = "Incremental"
    /\ previous_manifest = NoManifest
    /\ password = 0
    /\ CallStart
    /\ RestoreIdle
    /\ ShellIdle
    /\ \E had \in BOOLEAN, kept \in BOOLEAN :
          /\ manifest_file =
                IF had
                THEN [state |-> "complete", scan |-> 0,
                      files |-> build_manifest(scan_all_files(source), source)]
                ELSE NoManifestFile
          /\ dest_dir =
                IF kept
                THEN Folder(<< ArtifactOf(mode, scan_all_files(source), source, 0) >>)
                ELSE [Folder(<<>>) EXCEPT !.touched = had]
    /\ runs = [r \in Runs |-> IF r = 1 THEN IdleRun ELSE [IdleRun EXCEPT !.pc = "off"]]
    /\ scans = 0
    /\ LaunchdIdle
    /\ ConfigIdle

SpecWriteback == InitWriteback /\ [][NextManifest]_vars

\* No agent installed.
InitLaunchd ==
    /\ source = TreeOf(0)
    /\ mode = "Copy"
    /\ backup_type = "Full"
    /\ previous_manifest = NoManifest
    /\ password = 0
    /\ CallStart
    /\ RestoreIdle
    /\ ShellIdle
    /\ ManifestIdle
    /\ LaunchdIdle
    /\ ConfigIdle

NextLaunchd ==
    \/ InstallGenerate \/ InstallBootout \/ InstallWrite \/ InstallBootstrap
    \/ InstallVerify \/ UninstallBootout \/ UninstallRemove \/ CheckScheduleStatus

SpecLaunchd == InitLaunchd /\ [][NextLaunchd]_vars

(***************************************************************************)
(* Properties of compress_folder, checked under SpecBackup.                *)
(***************************************************************************)
Failed == pc = "done" /\ result # "Ok"

\* C1: whenever compress_folder returns Err, nothing exists at the planned
\* artifact path and no `.tmp.zst` sibling is left in the destination.
C1_NoLeftoverOnErr ==
    Failed => fs.artifact.kind = "none" /\ fs.temp.kind = "none"

\* Whether a poll of the cancel flag still lies ahead of the position `at`
\* of a call that meets no I/O error.
PollAhead(at) ==
    LET n == Len(files_to_backup)
    IN CASE at.pc \in {"start", "scan", "select", "scanned"} -> TRUE
         [] mode = "Copy" -> at.index < n
         [] mode = "Compressed" ->
                /\ at.pc \in {"mk_dest", "create", "writer"}
                /\ \E k \in at.index..(n - 1) : k % CancelCheckEvery = 0
         [] OTHER -> at.pc \in {"mk_dest", "create", "writer", "between"}

\* C4 as stated: once the cancel flag is set, before or at any moment of the
\* call, the call does not return Ok and leaves no artifact.
C4_CancelAtAnyMoment ==
    (pc = "done" /\ cancel_flag) => result # "Ok" /\ fs.artifact.kind = "none"

\* C4 as amended: a flag set before the call makes it return the cancelled
\* error; a flag set while a poll point lies ahead keeps the call from
\* returning Ok; a call that returns the cancelled error has appended at
\* most CancelCheckEvery files since the flag was set and leaves no artifact
\* at the planned path.
C4_CancelAtPollPoints ==
    (pc = "done" /\ cancel_flag) =>
        /\ cancelAt.pc = "start" => result = "Cancelled"
        /\ PollAhead(cancelAt) => result # "Ok"
        /\ result = "Cancelled" =>
              /\ fs.artifact.kind = "none"
              /\ index - cancelAt.index <= CancelCheckEvery

\* The flag was set while the writer was past its first file, and the next
\* 10-file check returned the cancelled error.
C4_Witness ==
    /\ pc = "done"
    /\ result = "Cancelled"
    /\ cancelAt.pc = "writer"
    /\ cancelAt.index > 0
    /\ index = CancelCheckEvery

\* C7: when compress_folder returns Ok in Compressed or Encrypted mode, the
\* returned backup_path holds a file that decodes (with the passphrase) to
\* every file selected, and the returned checksum is the digest of the bytes
\* stored there.
C7_OkArtifactCompleteAndDigested ==
    (pc = "done" /\ result = "Ok" /\ mode # "Copy" /\ tamper.kind = "none") =>
        /\ job.backup_path = backup_path
        /\ fs.artifact.kind = "file"
        /\ job.checksum = calculate_checksum(fs.artifact.bytes)
        /\ LET out == restore_backup(fs.artifact, job.backup_path.ext, Destination,
                                     NoChecksum, password, FALSE)
           IN out.result = "Ok" /\ out.count = job.files_count

C7_Witness ==
    /\ pc = "done"
    /\ result = "Ok"
    /\ mode = "Encrypted"
    /\ job.files_count > 1
    /\ job.checksum.of = fs.artifact.bytes

(***************************************************************************)
(* Properties of restore_backup, checked under SpecRestore.                *)
(***************************************************************************)
\* The files under Destination after the restore: relative path and data of
\* the last write to each path.
RestoredFiles ==
    LET log == restore.out.log
    IN { [rel |-> SubSeqFrom(log[i].path, Len(Destination) + 1), data |-> log[i].data] :
           i \in { j \in DOMAIN log : \A k \in (j + 1)..Len(log) : log[k].path # log[j].path } }

SourceFiles == { [rel |-> NamePath(n), data |-> source[n].data] : n \in DOMAIN source }

WritesStayInside ==
    \A i \in DOMAIN restore.out.log : IsUnder(restore.out.log[i].path, Destination)

\* C2: a restore of an archive with an entry whose name is absolute, has a
\* `..` segment or resolves outside the destination is aborted, and no
\* restore writes a file outside the destination.
C2_UnsafeEntriesRejected ==
    restore.called =>
        /\ WritesStayInside
        /\ tamper.kind = "hostile" => restore.out.result # "Ok"

\* C5: after a change of one byte of an encrypted artifact, restore_backup
\* with the right passphrase and no expected checksum fails with an
\* authentication or corrupt-frame error.
C5_AlteredFrameRejected ==
    (/\ restore.called
     /\ mode = "Encrypted"
     /\ tamper.kind = "byte"
     /\ restore.password = password
     /\ restore.expected = NoChecksum
     /\ ~restore.cancelled) =>
        restore.out.result \in {"TooShort", "Truncated", "MetadataError", "DecryptError"}

\* C6: given an expected checksum that differs from the digest of the
\* artifact, restore_backup returns the integrity error, creates nothing and
\* writes nothing.
C6_MismatchIsIntegrityError ==
    (/\ restore.called
     /\ ~restore.cancelled
     /\ fs.artifact.kind = "file"
     /\ restore.expected # NoChecksum
     /\ restore.expected # calculate_checksum(fs.artifact.bytes)) =>
        /\ restore.out.result = "IntegrityError"
        /\ restore.out.log = <<>>
        /\ ~restore.out.created

\* C8: a Full backup in Compressed or Encrypted mode, restored with the
\* returned checksum (and the same passphrase), yields the relative paths
\* and contents of the source tree, and the restore counts as many files as
\* the backup reported.
C8_RoundTrip ==
    (/\ restore.called
     /\ backup_type = "Full"
     /\ mode \in {"Compressed", "Encrypted"}
     /\ tamper.kind = "none"
     /\ restore.expected = job.checksum
     /\ mode = "Encrypted" => restore.password = password
     /\ ~restore.cancelled) =>
        /\ restore.out.result = "Ok"
        /\ WritesStayInside
        /\ RestoredFiles = SourceFiles
        /\ restore.out.count = job.files_count

C8_Witness ==
    /\ restore.called
    /\ backup_type = "Full"
    /\ mode = "Encrypted"
    /\ tamper.kind = "none"
    /\ restore.expected = job.checksum
    /\ restore.out.result = "Ok"
    /\ Cardinality(RestoredFiles) = MaxRestoreFiles
    /\ RestoredFiles = SourceFiles

ArchivedNames ==
    LET entries == TarEntries(decompress_with_zstd(fs.artifact.bytes))
    IN { entries[i].name : i \in DOMAIN entries }

\* C3: the files in the artifact of an Incremental backup with a manifest
\* are exactly the files of the walk that have no manifest entry, or whose
\* size or modified_at differs from the entry, or whose entry carries a
\* `fallback:` placeholder as its hash.
C3_IncrementalSelection ==
    (/\ pc = "done"
     /\ result = "Ok"
     /\ mode = "Compressed"
     /\ backup_type = "Incremental"
     /\ previous_manifest.present) =>
        ArchivedNames =
            { n \in DOMAIN source :
                \/ n \notin DOMAIN previous_manifest.files
                \/ previous_manifest.files[n].size # source[n].size
                \/ previous_manifest.files[n].modified_at # source[n].modified_at
                \/ previous_manifest.files[n].checksum = "fallback" }

(***************************************************************************)
(* Property of the shell, checked under SpecShell.                         *)
(***************************************************************************)
\* C10: no two backups of the same config_id are in flight at once.
C10_OneBackupPerConfig ==
    \A t1, t2 \in Tasks :
        (t1 # t2 /\ tasks[t1].pc = "running" /\ tasks[t2].pc = "running")
            => tasks[t1].config_id # tasks[t2].config_id

\* C11: the registry holds no entry of a run_backup_now call that has
\* returned, and while a call's backup is running the entry under its
\* config_id is the flag of that call.
C11_EntryRemovedOnEveryExit ==
    /\ \A c \in DOMAIN cancel_flags :
          cancel_flags[c] # 0 =>
              /\ tasks[cancel_flags[c]].pc # "idle"
              /\ tasks[cancel_flags[c]].config_id = c
    /\ \A t \in CommandTasks :
          tasks[t].pc = "running" => cancel_flags[tasks[t].config_id] = t

\* C12: a run that was handed the previous manifest had it verified by
\* verify_physical_backup_exists with the answer true, and a run whose
\* verification said false was handed no manifest.
C12_ManifestOnlyAfterVerification ==
    \A r \in Runs :
        runs[r].pc \notin {"idle", "load"} =>
            /\ runs[r].handed => runs[r].verdict = "true"
            /\ runs[r].verdict = "false" => ~runs[r].handed

\* C13: the manifest file is absent or a complete manifest at every moment,
\* and no run has read a partial one.
C13_ManifestNeverPartial ==
    /\ manifest_file.state \in {"absent", "complete"}
    /\ \A r \in Runs : ~runs[r].read_partial

\* C14: at most one task is writing the manifest of the configuration, and
\* the file never holds the manifest of a scan earlier than the scan of a
\* manifest that was written to it.
C14_SingleWriterInScanOrder ==
    /\ Cardinality({r \in Runs : runs[r].pc = "writing"}) <= 1
    /\ \A r \in Runs :
          (manifest_file.state = "complete" /\ runs[r].wrote) =>
              manifest_file.scan >= runs[r].scan

InstallDone == last.op = "install" /\ last.pc = "done"

\* C15: after an install that found the descriptor of an earlier install
\* and returned Ok, the descriptor is the generated one and the loaded job
\* is the one that descriptor describes.
C15_InstallTwiceOneJob ==
    (InstallDone /\ last.result = "Ok" /\ last.existed) =>
        /\ plists[last.config_id] = last.generated
        /\ loaded[last.config_id] = last.generated

\* C16: install returns Ok only if the descriptor exists, holds the
\* generated content, and launchctl reported the job as loaded.
C16_OkOnlyIfVerified ==
    (InstallDone /\ last.result = "Ok") =>
        /\ plists[last.config_id] # NoPlist
        /\ plists[last.config_id] = last.generated
        /\ last.reported = "true"

\* C17: after uninstall returned Ok the job is not loaded and the
\* descriptor is absent.
C17_UninstallRemovesJobAndDescriptor ==
    (last.op = "uninstall" /\ last.pc = "done" /\ last.result = "Ok") =>
        /\ loaded[last.config_id] = NoPlist
        /\ plists[last.config_id] = NoPlist

\* The meaning of a cron field: `*` is every value of the range, a list is
\* each of its items, a range every value from start to end, a number itself.
AllDigits(piece) == piece # <<>> /\ \A i \in 1..Len(piece) : piece[i] \in DigitChars

CronPieceOk(piece, min, max) ==
    LET ab == split(piece, "-") IN
    /\ Len(ab) \in {1, 2}
    /\ \A i \in 1..Len(ab) :
          AllDigits(ab[i]) /\ DecimalValue(ab[i]) >= min /\ DecimalValue(ab[i]) <= max
    /\ DecimalValue(ab[1]) <= DecimalValue(ab[Len(ab)])

CronPieceValues(piece) ==
    LET ab == split(piece, "-") IN DecimalValue(ab[1])..DecimalValue(ab[Len(ab)])

CronFieldValues(field, min, max) ==
    IF field = Star THEN min..max
    ELSE UNION {CronPieceValues(split(field, ",")[i]) : i \in 1..Len(split(field, ","))}

WellFormedCron(expr) ==
    /\ Len(expr) = 5
    /\ \A f \in 1..5 :
          \/ expr[f] = Star
          \/ \A i \in 1..Len(split(expr[f], ",")) :
                CronPieceOk(split(expr[f], ",")[i], FieldRange[f].min, FieldRange[f].max)

\* The values of field f at which the calendar triggers fire.
TriggerValues(intervals, f) ==
    UNION {IF intervals[k][f] = None THEN FieldRange[f].min..FieldRange[f].max
           ELSE {intervals[k][f]} : k \in 1..Len(intervals)}

\* C18: for a well-formed five-field expression the generated triggers
\* fire at exactly the values each field denotes, with one trigger per
\* (minute, hour) pair.
C18_TriggersDenoteExpression ==
    (last.op = "install" /\ WellFormedCron(last.cron_expr)) =>
        LET intervals == last.generated.intervals
            expr == last.cron_expr
        IN /\ last.generated # NoPlist
           /\ \A f \in 1..5 :
                 TriggerValues(intervals, f) =
                     CronFieldValues(expr[f], FieldRange[f].min, FieldRange[f].max)
           /\ {<< intervals[k][1], intervals[k][2] >> : k \in 1..Len(intervals)} =
                 CronFieldValues(expr[1], 0, 59) \X CronFieldValues(expr[2], 0, 23)
           /\ Len(intervals) =
                 Cardinality(CronFieldValues(expr[1], 0, 59))
                     * Cardinality(CronFieldValues(expr[2], 0, 23))

\* C19: an install whose cron expression is malformed returns Err in the
\* step that parses it, with every descriptor and every loaded job as they
\* were before the call.
C19_MalformedFailsBeforeEffects ==
    [][(last'.op = "install" /\ ~WellFormedCron(last'.cron_expr)) =>
           /\ last'.pc = "done"
           /\ last'.result = "Err"
           /\ plists' = plists
           /\ loaded' = loaded]_vars

C19_Witness ==
    /\ InstallDone
    /\ ~WellFormedCron(last.cron_expr)
    /\ last.result = "Err"
    /\ plists[last.config_id] # NoPlist
    /\ loaded[last.config_id] # NoPlist

\* C20: once the artifact is named, the name carries "full" exactly when
\* the selected files are the files of the full walk, and "incr" otherwise.
C20_FullIffAllFilesSelected ==
    backup_path.actual # "" =>
        /\ backup_path.actual \in {"full", "incr"}
        /\ backup_path.actual = "full" <=>
               {files_to_backup[i] : i \in 1..Len(files_to_backup)} =
                   {all_files[i] : i \in 1..Len(all_files)}

\* C29: whenever is_agent_loaded answered for a config_id, the answer was
\* true exactly when the job of that config_id was loaded.
C29_LoadedIffOwnJob ==
    (last.op \in {"install", "status"} /\ last.pc = "done"
        /\ last.reported \in {"true", "false"}) =>
        (last.reported = "true" <=> loaded[last.config_id] # NoPlist)

\* C30: after an install that returned an error, the descriptor and the
\* job of the config_id are as they were when the call began.
C30_FailedInstallChangesNothing ==
    (InstallDone /\ last.result = "Err") =>
        /\ plists[last.config_id] = last.before.plist
        /\ loaded[last.config_id] = last.before.job

\* C21: restore_backup of the untouched artifact of a successful backup in
\* any mode (with the returned checksum or none, and the passphrase of an
\* encrypted one) succeeds and counts the files the backup stored.
C21_EveryArtifactKindRestores ==
    (/\ restore.called
     /\ tamper.kind = "none"
     /\ restore.expected \in {NoChecksum, job.checksum}
     /\ mode = "Encrypted" => restore.password = password
     /\ ~restore.cancelled) =>
        /\ restore.out.result = "Ok"
        /\ restore.out.count = job.files_count

\* A run whose writeback was the last write of the manifest file.
WroteManifest(r) ==
    /\ runs[r].pc = "done"
    /\ runs[r].wrote
    /\ manifest_file.state = "complete"
    /\ manifest_file.scan = runs[r].scan

C27_EntriesAreInArtifacts ==
    (manifest_file.state = "complete" /\ ~dest_dir.touched) =>
        \A n \in DOMAIN manifest_file.files :
            \E i \in DOMAIN dest_dir.artifacts :
                /\ n \in DOMAIN dest_dir.artifacts[i].files
                /\ dest_dir.artifacts[i].files[n].size = manifest_file.files[n].size
                /\ dest_dir.artifacts[i].files[n].modified_at =
                       manifest_file.files[n].modified_at

\* C28: after an incremental run that stored fewer files than the source
\* has and wrote its manifest back, with the destination left alone,
\* verify_physical_backup_exists answers true for that manifest.
C28_VerifyTrueAfterIncremental ==
    \A r \in Runs :
        (/\ WroteManifest(r)
         /\ runs[r].handed
         /\ Len(runs[r].stored) < Cardinality(DOMAIN runs[r].seen)
         /\ ~dest_dir.touched
         /\ dest_dir.artifacts # <<>>
         /\ dest_dir.artifacts[Len(dest_dir.artifacts)].run = r) =>
            verify_physical_backup_exists(dest_dir, mode, manifest_file.files) = "true"

\* The first index at or after i at which the writer polls the flag.
NextPoll(i) == ((i + CancelCheckEvery - 1) \div CancelCheckEvery) * CancelCheckEvery

C26_FailedCallKeepsEarlierArtifact ==
    [][(job # NoJob /\ pc # "done" /\ pc' = "done" /\ result' # "Ok") =>
          IF mode = "Copy"
          THEN /\ fs'.artifact.kind = "dir"
               /\ Cardinality(DOMAIN fs'.artifact.entries) = job.files_count
          ELSE /\ fs'.artifact.kind = "file"
               /\ calculate_checksum(fs'.artifact.bytes) = job.checksum]_vars

\* C23: no command waits for the file system or for the backup while it
\* holds the lock of the configurations, and no command holds the lock of
\* the cancel flags when it takes the lock of the configurations.
C23_NoConfigLockAcrossIo ==
    \A p \in Cmds :
        /\ cmds[p].pc \in IoWaits => locks.configs # p
        /\ locks.configs = p => locks.cancel_flags # p

\* C24: no entry of configs.json has an encryption_password, and every
\* config read back from the file has none.
C24_PasswordNeverPersisted ==
    /\ \A i \in DOMAIN config_file.entries :
          /\ "encryption_password" \notin DOMAIN config_file.entries[i]
          /\ from_json(config_file.entries[i]).encryption_password = NoneValue
    /\ \A p \in Cmds :
          \A i \in DOMAIN cmds[p].loaded :
              cmds[p].loaded[i].encryption_password = NoneValue

\* A config saved with a password is in the file, and load_configs has read
\* it back.
C24_Witness ==
    \E p \in Cmds, i \in StoredIds :
        /\ i \in DOMAIN configs
        /\ configs[i].encryption_password # NoneValue
        /\ config_file.exists
        /\ i \in DOMAIN config_file.entries
        /\ cmds[p].op = "load_configs"
        /\ i \in DOMAIN cmds[p].loaded

====
